---- MODULE Spec2Model ----
(***************************************************************************)
(* Model of the manifest-generation core of argocd-offline-cli             *)
(* (preview/shared.go): URL normalisation, local repository detection,     *)
(* the same-repository constraint on Git sources, the cross-source         *)
(* reference table and the single-/multi-source generation passes.         *)
(*                                                                         *)
(* Strings the code inspects or produces character by character            *)
(* (repository URLs, filesystem paths, revisions) are sequences of          *)
(* one-character strings; chart names and ref names are TLA+ strings.      *)
(* Source indices are zero-based as in the Go code: source i is            *)
(* sources[i + 1].                                                         *)
(***************************************************************************)
EXTENDS Integers, Sequences, FiniteSets, TLC

(***************************************************************************)
(* Bounds of the model.                                                    *)
(***************************************************************************)
\* longest source list handed to validateGitSourcesConstraint / buildRefSources
MaxSources == 3
\* longest source list of an Application run through a whole generation pass
MaxAppSources == 3
\* longest manifest list handed to filterResources
MaxManifests == 3

(***************************************************************************)
(* Go "strings" helpers, on sequences of characters.                       *)
(***************************************************************************)
HasPrefix(s, p) == Len(s) >= Len(p) /\ SubSeq(s, 1, Len(p)) = p

HasSuffix(s, p) == Len(s) >= Len(p) /\ SubSeq(s, Len(s) - Len(p) + 1, Len(s)) = p

TrimPrefix(s, p) == IF HasPrefix(s, p) THEN SubSeq(s, Len(p) + 1, Len(s)) ELSE s

\* a trim that cuts Len(p) characters without looking at them
TrimSuffixUnchecked(s, p) == SubSeq(s, 1, Len(s) - Len(p))

TrimSuffix(s, p) == IF HasSuffix(s, p) THEN SubSeq(s, 1, Len(s) - Len(p)) ELSE s

\* a replacement that leaves the string as it is
ReplaceNone(s, old, new) == s

\* strings.Replace(s, old, new, 1) for one-character old and new
ReplaceFirst(s, old, new) ==
    IF \E i \in 1..Len(s) : s[i] = old
    THEN LET k == CHOOSE i \in 1..Len(s) : s[i] = old /\ \A j \in 1..(i - 1) : s[j] # old
         IN  [i \in 1..Len(s) |-> IF i = k THEN new ELSE s[i]]
    ELSE s

UpperLetters == <<"A","B","C","D","E","F","G","H","I","J","K","L","M",
                  "N","O","P","Q","R","S","T","U","V","W","X","Y","Z">>

LowerLetters == <<"a","b","c","d","e","f","g","h","i","j","k","l","m",
                  "n","o","p","q","r","s","t","u","v","w","x","y","z">>

(***************************************************************************)
(* The letters outside ASCII that unicode.ToLower changes, and what it     *)
(* changes them to, position by position.  A rune is written as a          *)
(* one-character string; a rune that a string of this module cannot hold   *)
(* is written by its code point, "U+0100".                                 *)
(***************************************************************************)
UnicodeUpper ==
  <<
    "À", "Á", "Â", "Ã", "Ä", "Å", "Æ", "Ç", "È", "É",
    "Ê", "Ë", "Ì", "Í", "Î", "Ï", "Ð", "Ñ", "Ò", "Ó",
    "Ô", "Õ", "Ö", "Ø", "Ù", "Ú", "Û", "Ü", "Ý", "Þ",
    "U+0100", "U+0102", "U+0104", "U+0106", "U+0108", "U+010A", "U+010C", "U+010E", "U+0110", "U+0112",
    "U+0114", "U+0116", "U+0118", "U+011A", "U+011C", "U+011E", "U+0120", "U+0122", "U+0124", "U+0126",
    "U+0128", "U+012A", "U+012C", "U+012E", "U+0130", "U+0132", "U+0134", "U+0136", "U+0139", "U+013B",
    "U+013D", "U+013F", "U+0141", "U+0143", "U+0145", "U+0147", "U+014A", "U+014C", "U+014E", "U+0150",
    "U+0152", "U+0154", "U+0156", "U+0158", "U+015A", "U+015C", "U+015E", "U+0160", "U+0162", "U+0164",
    "U+0166", "U+0168", "U+016A", "U+016C", "U+016E", "U+0170", "U+0172", "U+0174", "U+0176", "U+0178",
    "U+0179", "U+017B", "U+017D", "Ɓ", "Ƃ", "Ƅ", "Ɔ", "Ƈ", "Ɖ", "Ɗ",
    "Ƌ", "Ǝ", "Ə", "Ɛ", "Ƒ", "Ɠ", "Ɣ", "Ɩ", "Ɨ", "Ƙ",
    "Ɯ", "Ɲ", "Ɵ", "Ơ", "Ƣ", "Ƥ", "Ʀ", "Ƨ", "Ʃ", "Ƭ",
    "Ʈ", "Ư", "Ʊ", "Ʋ", "Ƴ", "Ƶ", "Ʒ", "Ƹ", "Ƽ", "Ǆ",
    "ǅ", "Ǉ", "ǈ", "Ǌ", "ǋ", "Ǎ", "Ǐ", "Ǒ", "Ǔ", "Ǖ",
    "Ǘ", "Ǚ", "Ǜ", "Ǟ", "Ǡ", "Ǣ", "Ǥ", "Ǧ", "Ǩ", "Ǫ",
    "Ǭ", "Ǯ", "Ǳ", "ǲ", "Ǵ", "Ƕ", "Ƿ", "Ǹ", "Ǻ", "Ǽ",
    "Ǿ", "U+0200", "U+0202", "U+0204", "U+0206", "U+0208", "U+020A", "U+020C", "U+020E", "U+0210",
    "U+0212", "U+0214", "U+0216", "U+0218", "U+021A", "U+021C", "U+021E", "U+0220", "U+0222", "U+0224",
    "U+0226", "U+0228", "U+022A", "U+022C", "U+022E", "U+0230", "U+0232", "U+023A", "U+023B", "U+023D",
    "U+023E", "U+0241", "U+0243", "U+0244", "U+0245", "U+0246", "U+0248", "U+024A", "U+024C", "U+024E",
    "U+0370", "U+0372", "U+0376", "U+037F", "Ά", "Έ", "Ή", "Ί", "Ό", "Ύ",
    "Ώ", "Α", "Β", "Γ", "Δ", "Ε", "Ζ", "Η", "Θ", "Ι",
    "Κ", "Λ", "Μ", "Ν", "Ξ", "Ο", "Π", "Ρ", "Σ", "Τ",
    "Υ", "Φ", "Χ", "Ψ", "Ω", "Ϊ", "Ϋ", "Ϗ", "Ϙ", "Ϛ",
    "Ϝ", "Ϟ", "Ϡ", "Ϣ", "Ϥ", "Ϧ", "Ϩ", "Ϫ", "Ϭ", "Ϯ",
    "ϴ", "Ϸ", "Ϲ", "Ϻ", "Ͻ", "Ͼ", "Ͽ", "U+0400", "U+0401", "U+0402",
    "U+0403", "U+0404", "U+0405", "U+0406", "U+0407", "U+0408", "U+0409", "U+040A", "U+040B", "U+040C",
    "U+040D", "U+040E", "U+040F", "U+0410", "U+0411", "U+0412", "U+0413", "U+0414", "U+0415", "U+0416",
    "U+0417", "U+0418", "U+0419", "U+041A", "U+041B", "U+041C", "U+041D", "U+041E", "U+041F", "U+0420",
    "U+0421", "U+0422", "U+0423", "U+0424", "U+0425", "U+0426", "U+0427", "U+0428", "U+0429", "U+042A",
    "U+042B", "U+042C", "U+042D", "U+042E", "U+042F", "U+0460", "U+0462", "U+0464", "U+0466", "U+0468",
    "U+046A", "U+046C", "U+046E", "U+0470", "U+0472", "U+0474", "U+0476", "U+0478", "U+047A", "U+047C",
    "U+047E", "Ҁ", "Ҋ", "Ҍ", "Ҏ", "Ґ", "Ғ", "Ҕ", "Җ", "Ҙ",
    "Қ", "Ҝ", "Ҟ", "Ҡ", "Ң", "Ҥ", "Ҧ", "Ҩ", "Ҫ", "Ҭ",
    "Ү", "Ұ", "Ҳ", "Ҵ", "Ҷ", "Ҹ", "Һ", "Ҽ", "Ҿ", "Ӏ",
    "Ӂ", "Ӄ", "Ӆ", "Ӈ", "Ӊ", "Ӌ", "Ӎ", "Ӑ", "Ӓ", "Ӕ",
    "Ӗ", "Ә", "Ӛ", "Ӝ", "Ӟ", "Ӡ", "Ӣ", "Ӥ", "Ӧ", "Ө",
    "Ӫ", "Ӭ", "Ӯ", "Ӱ", "Ӳ", "Ӵ", "Ӷ", "Ӹ", "Ӻ", "Ӽ",
    "Ӿ", "U+0500", "U+0502", "U+0504", "U+0506", "U+0508", "U+050A", "U+050C", "U+050E", "U+0510",
    "U+0512", "U+0514", "U+0516", "U+0518", "U+051A", "U+051C", "U+051E", "U+0520", "U+0522", "U+0524",
    "U+0526", "U+0528", "U+052A", "U+052C", "U+052E", "U+0531", "U+0532", "U+0533", "U+0534", "U+0535",
    "U+0536", "U+0537", "U+0538", "U+0539", "U+053A", "U+053B", "U+053C", "U+053D", "U+053E", "U+053F",
    "U+0540", "U+0541", "U+0542", "U+0543", "U+0544", "U+0545", "U+0546", "U+0547", "U+0548", "U+0549",
    "U+054A", "U+054B", "U+054C", "U+054D", "U+054E", "U+054F", "U+0550", "U+0551", "U+0552", "U+0553",
    "U+0554", "U+0555", "U+0556", "Ⴀ", "Ⴁ", "Ⴂ", "Ⴃ", "Ⴄ", "Ⴅ", "Ⴆ",
    "Ⴇ", "Ⴈ", "Ⴉ", "Ⴊ", "Ⴋ", "Ⴌ", "Ⴍ", "Ⴎ", "Ⴏ", "Ⴐ",
    "Ⴑ", "Ⴒ", "Ⴓ", "Ⴔ", "Ⴕ", "Ⴖ", "Ⴗ", "Ⴘ", "Ⴙ", "Ⴚ",
    "Ⴛ", "Ⴜ", "Ⴝ", "Ⴞ", "Ⴟ", "Ⴠ", "Ⴡ", "Ⴢ", "Ⴣ", "Ⴤ",
    "Ⴥ", "Ⴧ", "Ⴭ", "Ꭰ", "Ꭱ", "Ꭲ", "Ꭳ", "Ꭴ", "Ꭵ", "Ꭶ",
    "Ꭷ", "Ꭸ", "Ꭹ", "Ꭺ", "Ꭻ", "Ꭼ", "Ꭽ", "Ꭾ", "Ꭿ", "Ꮀ",
    "Ꮁ", "Ꮂ", "Ꮃ", "Ꮄ", "Ꮅ", "Ꮆ", "Ꮇ", "Ꮈ", "Ꮉ", "Ꮊ",
    "Ꮋ", "Ꮌ", "Ꮍ", "Ꮎ", "Ꮏ", "Ꮐ", "Ꮑ", "Ꮒ", "Ꮓ", "Ꮔ",
    "Ꮕ", "Ꮖ", "Ꮗ", "Ꮘ", "Ꮙ", "Ꮚ", "Ꮛ", "Ꮜ", "Ꮝ", "Ꮞ",
    "Ꮟ", "Ꮠ", "Ꮡ", "Ꮢ", "Ꮣ", "Ꮤ", "Ꮥ", "Ꮦ", "Ꮧ", "Ꮨ",
    "Ꮩ", "Ꮪ", "Ꮫ", "Ꮬ", "Ꮭ", "Ꮮ", "Ꮯ", "Ꮰ", "Ꮱ", "Ꮲ",
    "Ꮳ", "Ꮴ", "Ꮵ", "Ꮶ", "Ꮷ", "Ꮸ", "Ꮹ", "Ꮺ", "Ꮻ", "Ꮼ",
    "Ꮽ", "Ꮾ", "Ꮿ", "Ᏸ", "Ᏹ", "Ᏺ", "Ᏻ", "Ᏼ", "Ᏽ", "Ა",
    "Ბ", "Გ", "Დ", "Ე", "Ვ", "Ზ", "Თ", "Ი", "Კ", "Ლ",
    "Მ", "Ნ", "Ო", "Პ", "Ჟ", "Რ", "Ს", "Ტ", "Უ", "Ფ",
    "Ქ", "Ღ", "Ყ", "Შ", "Ჩ", "Ც", "Ძ", "Წ", "Ჭ", "Ხ",
    "Ჯ", "Ჰ", "Ჱ", "Ჲ", "Ჳ", "Ჴ", "Ჵ", "Ჶ", "Ჷ", "Ჸ",
    "Ჹ", "Ჺ", "Ჽ", "Ჾ", "Ჿ", "U+1E00", "U+1E02", "U+1E04", "U+1E06", "U+1E08",
    "U+1E0A", "U+1E0C", "U+1E0E", "U+1E10", "U+1E12", "U+1E14", "U+1E16", "U+1E18", "U+1E1A", "U+1E1C",
    "U+1E1E", "U+1E20", "U+1E22", "U+1E24", "U+1E26", "U+1E28", "U+1E2A", "U+1E2C", "U+1E2E", "U+1E30",
    "U+1E32", "U+1E34", "U+1E36", "U+1E38", "U+1E3A", "U+1E3C", "U+1E3E", "U+1E40", "U+1E42", "U+1E44",
    "U+1E46", "U+1E48", "U+1E4A", "U+1E4C", "U+1E4E", "U+1E50", "U+1E52", "U+1E54", "U+1E56", "U+1E58",
    "U+1E5A", "U+1E5C", "U+1E5E", "U+1E60", "U+1E62", "U+1E64", "U+1E66", "U+1E68", "U+1E6A", "U+1E6C",
    "U+1E6E", "U+1E70", "U+1E72", "U+1E74", "U+1E76", "U+1E78", "U+1E7A", "U+1E7C", "U+1E7E", "Ẁ",
    "Ẃ", "Ẅ", "Ẇ", "Ẉ", "Ẋ", "Ẍ", "Ẏ", "Ẑ", "Ẓ", "Ẕ",
    "ẞ", "Ạ", "Ả", "Ấ", "Ầ", "Ẩ", "Ẫ", "Ậ", "Ắ", "Ằ",
    "Ẳ", "Ẵ", "Ặ", "Ẹ", "Ẻ", "Ẽ", "Ế", "Ề", "Ể", "Ễ",
    "Ệ", "Ỉ", "Ị", "Ọ", "Ỏ", "Ố", "Ồ", "Ổ", "Ỗ", "Ộ",
    "Ớ", "Ờ", "Ở", "Ỡ", "Ợ", "Ụ", "Ủ", "Ứ", "Ừ", "Ử",
    "Ữ", "Ự", "Ỳ", "Ỵ", "Ỷ", "Ỹ", "Ỻ", "Ỽ", "Ỿ", "U+1F08",
    "U+1F09", "U+1F0A", "U+1F0B", "U+1F0C", "U+1F0D", "U+1F0E", "U+1F0F", "U+1F18", "U+1F19", "U+1F1A",
    "U+1F1B", "U+1F1C", "U+1F1D", "U+1F28", "U+1F29", "U+1F2A", "U+1F2B", "U+1F2C", "U+1F2D", "U+1F2E",
    "U+1F2F", "U+1F38", "U+1F39", "U+1F3A", "U+1F3B", "U+1F3C", "U+1F3D", "U+1F3E", "U+1F3F", "U+1F48",
    "U+1F49", "U+1F4A", "U+1F4B", "U+1F4C", "U+1F4D", "U+1F59", "U+1F5B", "U+1F5D", "U+1F5F", "U+1F68",
    "U+1F69", "U+1F6A", "U+1F6B", "U+1F6C", "U+1F6D", "U+1F6E", "U+1F6F", "ᾈ", "ᾉ", "ᾊ",
    "ᾋ", "ᾌ", "ᾍ", "ᾎ", "ᾏ", "ᾘ", "ᾙ", "ᾚ", "ᾛ", "ᾜ",
    "ᾝ", "ᾞ", "ᾟ", "ᾨ", "ᾩ", "ᾪ", "ᾫ", "ᾬ", "ᾭ", "ᾮ",
    "ᾯ", "Ᾰ", "Ᾱ", "Ὰ", "Ά", "ᾼ", "Ὲ", "Έ", "Ὴ", "Ή",
    "ῌ", "Ῐ", "Ῑ", "Ὶ", "Ί", "Ῠ", "Ῡ", "Ὺ", "Ύ", "Ῥ",
    "Ὸ", "Ό", "Ὼ", "Ώ", "ῼ", "U+2126", "U+212A", "U+212B", "U+2132", "U+2160",
    "U+2161", "U+2162", "U+2163", "U+2164", "U+2165", "U+2166", "U+2167", "U+2168", "U+2169", "U+216A",
    "U+216B", "U+216C", "U+216D", "U+216E", "U+216F", "Ↄ", "Ⓐ", "Ⓑ", "Ⓒ", "Ⓓ",
    "Ⓔ", "Ⓕ", "Ⓖ", "Ⓗ", "Ⓘ", "Ⓙ", "Ⓚ", "Ⓛ", "Ⓜ", "Ⓝ",
    "Ⓞ", "Ⓟ", "Ⓠ", "Ⓡ", "Ⓢ", "Ⓣ", "Ⓤ", "Ⓥ", "Ⓦ", "Ⓧ",
    "Ⓨ", "Ⓩ", "U+2C00", "U+2C01", "U+2C02", "U+2C03", "U+2C04", "U+2C05", "U+2C06", "U+2C07",
    "U+2C08", "U+2C09", "U+2C0A", "U+2C0B", "U+2C0C", "U+2C0D", "U+2C0E", "U+2C0F", "U+2C10", "U+2C11",
    "U+2C12", "U+2C13", "U+2C14", "U+2C15", "U+2C16", "U+2C17", "U+2C18", "U+2C19", "U+2C1A", "U+2C1B",
    "U+2C1C", "U+2C1D", "U+2C1E", "U+2C1F", "U+2C20", "U+2C21", "U+2C22", "U+2C23", "U+2C24", "U+2C25",
    "U+2C26", "U+2C27", "U+2C28", "U+2C29", "U+2C2A", "U+2C2B", "U+2C2C", "U+2C2D", "U+2C2E", "U+2C2F",
    "U+2C60", "U+2C62", "U+2C63", "U+2C64", "U+2C67", "U+2C69", "U+2C6B", "U+2C6D", "U+2C6E", "U+2C6F",
    "U+2C70", "U+2C72", "U+2C75", "U+2C7E", "U+2C7F", "Ⲁ", "Ⲃ", "Ⲅ", "Ⲇ", "Ⲉ",
    "Ⲋ", "Ⲍ", "Ⲏ", "Ⲑ", "Ⲓ", "Ⲕ", "Ⲗ", "Ⲙ", "Ⲛ", "Ⲝ",
    "Ⲟ", "Ⲡ", "Ⲣ", "Ⲥ", "Ⲧ", "Ⲩ", "Ⲫ", "Ⲭ", "Ⲯ", "Ⲱ",
    "Ⲳ", "Ⲵ", "Ⲷ", "Ⲹ", "Ⲻ", "Ⲽ", "Ⲿ", "Ⳁ", "Ⳃ", "Ⳅ",
    "Ⳇ", "Ⳉ", "Ⳋ", "Ⳍ", "Ⳏ", "Ⳑ", "Ⳓ", "Ⳕ", "Ⳗ", "Ⳙ",
    "Ⳛ", "Ⳝ", "Ⳟ", "Ⳡ", "Ⳣ", "Ⳬ", "Ⳮ", "Ⳳ", "U+A640", "U+A642",
    "U+A644", "U+A646", "U+A648", "U+A64A", "U+A64C", "U+A64E", "U+A650", "U+A652", "U+A654", "U+A656",
    "U+A658", "U+A65A", "U+A65C", "U+A65E", "U+A660", "U+A662", "U+A664", "U+A666", "U+A668", "U+A66A",
    "U+A66C", "Ꚁ", "Ꚃ", "Ꚅ", "Ꚇ", "Ꚉ", "Ꚋ", "Ꚍ", "Ꚏ", "Ꚑ",
    "Ꚓ", "Ꚕ", "Ꚗ", "Ꚙ", "Ꚛ", "U+A722", "U+A724", "U+A726", "U+A728", "U+A72A",
    "U+A72C", "U+A72E", "U+A732", "U+A734", "U+A736", "U+A738", "U+A73A", "U+A73C", "U+A73E", "U+A740",
    "U+A742", "U+A744", "U+A746", "U+A748", "U+A74A", "U+A74C", "U+A74E", "U+A750", "U+A752", "U+A754",
    "U+A756", "U+A758", "U+A75A", "U+A75C", "U+A75E", "U+A760", "U+A762", "U+A764", "U+A766", "U+A768",
    "U+A76A", "U+A76C", "U+A76E", "U+A779", "U+A77B", "U+A77D", "U+A77E", "Ꞁ", "Ꞃ", "Ꞅ",
    "Ꞇ", "Ꞌ", "Ɥ", "Ꞑ", "Ꞓ", "Ꞗ", "Ꞙ", "Ꞛ", "Ꞝ", "Ꞟ",
    "Ꞡ", "Ꞣ", "Ꞥ", "Ꞧ", "Ꞩ", "Ɦ", "Ɜ", "Ɡ", "Ɬ", "Ɪ",
    "Ʞ", "Ʇ", "Ʝ", "Ꭓ", "Ꞵ", "Ꞷ", "Ꞹ", "Ꞻ", "Ꞽ", "Ꞿ",
    "Ꟁ", "Ꟃ", "Ꞔ", "Ʂ", "Ᶎ", "Ꟈ", "Ꟊ", "Ꟑ", "Ꟗ", "Ꟙ",
    "Ꟶ", "U+FF21", "U+FF22", "U+FF23", "U+FF24", "U+FF25", "U+FF26", "U+FF27", "U+FF28", "U+FF29",
    "U+FF2A", "U+FF2B", "U+FF2C", "U+FF2D", "U+FF2E", "U+FF2F", "U+FF30", "U+FF31", "U+FF32", "U+FF33",
    "U+FF34", "U+FF35", "U+FF36", "U+FF37", "U+FF38", "U+FF39", "U+FF3A", "U+10400", "U+10401", "U+10402",
    "U+10403", "U+10404", "U+10405", "U+10406", "U+10407", "U+10408", "U+10409", "U+1040A", "U+1040B", "U+1040C",
    "U+1040D", "U+1040E", "U+1040F", "U+10410", "U+10411", "U+10412", "U+10413", "U+10414", "U+10415", "U+10416",
    "U+10417", "U+10418", "U+10419", "U+1041A", "U+1041B", "U+1041C", "U+1041D", "U+1041E", "U+1041F", "U+10420",
    "U+10421", "U+10422", "U+10423", "U+10424", "U+10425", "U+10426", "U+10427", "U+104B0", "U+104B1", "U+104B2",
    "U+104B3", "U+104B4", "U+104B5", "U+104B6", "U+104B7", "U+104B8", "U+104B9", "U+104BA", "U+104BB", "U+104BC",
    "U+104BD", "U+104BE", "U+104BF", "U+104C0", "U+104C1", "U+104C2", "U+104C3", "U+104C4", "U+104C5", "U+104C6",
    "U+104C7", "U+104C8", "U+104C9", "U+104CA", "U+104CB", "U+104CC", "U+104CD", "U+104CE", "U+104CF", "U+104D0",
    "U+104D1", "U+104D2", "U+104D3", "U+10570", "U+10571", "U+10572", "U+10573", "U+10574", "U+10575", "U+10576",
    "U+10577", "U+10578", "U+10579", "U+1057A", "U+1057C", "U+1057D", "U+1057E", "U+1057F", "U+10580", "U+10581",
    "U+10582", "U+10583", "U+10584", "U+10585", "U+10586", "U+10587", "U+10588", "U+10589", "U+1058A", "U+1058C",
    "U+1058D", "U+1058E", "U+1058F", "U+10590", "U+10591", "U+10592", "U+10594", "U+10595", "U+10C80", "U+10C81",
    "U+10C82", "U+10C83", "U+10C84", "U+10C85", "U+10C86", "U+10C87", "U+10C88", "U+10C89", "U+10C8A", "U+10C8B",
    "U+10C8C", "U+10C8D", "U+10C8E", "U+10C8F", "U+10C90", "U+10C91", "U+10C92", "U+10C93", "U+10C94", "U+10C95",
    "U+10C96", "U+10C97", "U+10C98", "U+10C99", "U+10C9A", "U+10C9B", "U+10C9C", "U+10C9D", "U+10C9E", "U+10C9F",
    "U+10CA0", "U+10CA1", "U+10CA2", "U+10CA3", "U+10CA4", "U+10CA5", "U+10CA6", "U+10CA7", "U+10CA8", "U+10CA9",
    "U+10CAA", "U+10CAB", "U+10CAC", "U+10CAD", "U+10CAE", "U+10CAF", "U+10CB0", "U+10CB1", "U+10CB2", "U+118A0",
    "U+118A1", "U+118A2", "U+118A3", "U+118A4", "U+118A5", "U+118A6", "U+118A7", "U+118A8", "U+118A9", "U+118AA",
    "U+118AB", "U+118AC", "U+118AD", "U+118AE", "U+118AF", "U+118B0", "U+118B1", "U+118B2", "U+118B3", "U+118B4",
    "U+118B5", "U+118B6", "U+118B7", "U+118B8", "U+118B9", "U+118BA", "U+118BB", "U+118BC", "U+118BD", "U+118BE",
    "U+118BF", "U+16E40", "U+16E41", "U+16E42", "U+16E43", "U+16E44", "U+16E45", "U+16E46", "U+16E47", "U+16E48",
    "U+16E49", "U+16E4A", "U+16E4B", "U+16E4C", "U+16E4D", "U+16E4E", "U+16E4F", "U+16E50", "U+16E51", "U+16E52",
    "U+16E53", "U+16E54", "U+16E55", "U+16E56", "U+16E57", "U+16E58", "U+16E59", "U+16E5A", "U+16E5B", "U+16E5C",
    "U+16E5D", "U+16E5E", "U+16E5F", "U+1E900", "U+1E901", "U+1E902", "U+1E903", "U+1E904", "U+1E905", "U+1E906",
    "U+1E907", "U+1E908", "U+1E909", "U+1E90A", "U+1E90B", "U+1E90C", "U+1E90D", "U+1E90E", "U+1E90F", "U+1E910",
    "U+1E911", "U+1E912", "U+1E913", "U+1E914", "U+1E915", "U+1E916", "U+1E917", "U+1E918", "U+1E919", "U+1E91A",
    "U+1E91B", "U+1E91C", "U+1E91D", "U+1E91E", "U+1E91F", "U+1E920", "U+1E921"
  >>

UnicodeLower ==
  <<
    "à", "á", "â", "ã", "ä", "å", "æ", "ç", "è", "é",
    "ê", "ë", "ì", "í", "î", "ï", "ð", "ñ", "ò", "ó",
    "ô", "õ", "ö", "ø", "ù", "ú", "û", "ü", "ý", "þ",
    "U+0101", "U+0103", "U+0105", "U+0107", "U+0109", "U+010B", "U+010D", "U+010F", "U+0111", "U+0113",
    "U+0115", "U+0117", "U+0119", "U+011B", "U+011D", "U+011F", "U+0121", "U+0123", "U+0125", "U+0127",
    "U+0129", "U+012B", "U+012D", "U+012F", "i", "U+0133", "U+0135", "U+0137", "U+013A", "U+013C",
    "U+013E", "U+0140", "U+0142", "U+0144", "U+0146", "U+0148", "U+014B", "U+014D", "U+014F", "U+0151",
    "U+0153", "U+0155", "U+0157", "U+0159", "U+015B", "U+015D", "U+015F", "U+0161", "U+0163", "U+0165",
    "U+0167", "U+0169", "U+016B", "U+016D", "U+016F", "U+0171", "U+0173", "U+0175", "U+0177", "ÿ",
    "U+017A", "U+017C", "U+017E", "U+0253", "ƃ", "ƅ", "U+0254", "ƈ", "U+0256", "U+0257",
    "ƌ", "ǝ", "U+0259", "U+025B", "ƒ", "U+0260", "U+0263", "U+0269", "U+0268", "ƙ",
    "U+026F", "U+0272", "U+0275", "ơ", "ƣ", "ƥ", "ʀ", "ƨ", "ʃ", "ƭ",
    "ʈ", "ư", "ʊ", "ʋ", "ƴ", "ƶ", "ʒ", "ƹ", "ƽ", "ǆ",
    "ǆ", "ǉ", "ǉ", "ǌ", "ǌ", "ǎ", "ǐ", "ǒ", "ǔ", "ǖ",
    "ǘ", "ǚ", "ǜ", "ǟ", "ǡ", "ǣ", "ǥ", "ǧ", "ǩ", "ǫ",
    "ǭ", "ǯ", "ǳ", "ǳ", "ǵ", "ƕ", "ƿ", "ǹ", "ǻ", "ǽ",
    "ǿ", "U+0201", "U+0203", "U+0205", "U+0207", "U+0209", "U+020B", "U+020D", "U+020F", "U+0211",
    "U+0213", "U+0215", "U+0217", "U+0219", "U+021B", "U+021D", "U+021F", "ƞ", "U+0223", "U+0225",
    "U+0227", "U+0229", "U+022B", "U+022D", "U+022F", "U+0231", "U+0233", "U+2C65", "U+023C", "ƚ",
    "U+2C66", "U+0242", "ƀ", "ʉ", "ʌ", "U+0247", "U+0249", "U+024B", "U+024D", "U+024F",
    "U+0371", "U+0373", "U+0377", "ϳ", "ά", "έ", "ή", "ί", "ό", "ύ",
    "ώ", "α", "β", "γ", "δ", "ε", "ζ", "η", "θ", "ι",
    "κ", "λ", "μ", "ν", "ξ", "ο", "π", "ρ", "σ", "τ",
    "υ", "φ", "χ", "ψ", "ω", "ϊ", "ϋ", "ϗ", "ϙ", "ϛ",
    "ϝ", "ϟ", "ϡ", "ϣ", "ϥ", "ϧ", "ϩ", "ϫ", "ϭ", "ϯ",
    "θ", "ϸ", "ϲ", "ϻ", "U+037B", "U+037C", "U+037D", "U+0450", "U+0451", "U+0452",
    "U+0453", "U+0454", "U+0455", "U+0456", "U+0457", "U+0458", "U+0459", "U+045A", "U+045B", "U+045C",
    "U+045D", "U+045E", "U+045F", "U+0430", "U+0431", "U+0432", "U+0433", "U+0434", "U+0435", "U+0436",
    "U+0437", "U+0438", "U+0439", "U+043A", "U+043B", "U+043C", "U+043D", "U+043E", "U+043F", "U+0440",
    "U+0441", "U+0442", "U+0443", "U+0444", "U+0445", "U+0446", "U+0447", "U+0448", "U+0449", "U+044A",
    "U+044B", "U+044C", "U+044D", "U+044E", "U+044F", "U+0461", "U+0463", "U+0465", "U+0467", "U+0469",
    "U+046B", "U+046D", "U+046F", "U+0471", "U+0473", "U+0475", "U+0477", "U+0479", "U+047B", "U+047D",
    "U+047F", "ҁ", "ҋ", "ҍ", "ҏ", "ґ", "ғ", "ҕ", "җ", "ҙ",
    "қ", "ҝ", "ҟ", "ҡ", "ң", "ҥ", "ҧ", "ҩ", "ҫ", "ҭ",
    "ү", "ұ", "ҳ", "ҵ", "ҷ", "ҹ", "һ", "ҽ", "ҿ", "ӏ",
    "ӂ", "ӄ", "ӆ", "ӈ", "ӊ", "ӌ", "ӎ", "ӑ", "ӓ", "ӕ",
    "ӗ", "ә", "ӛ", "ӝ", "ӟ", "ӡ", "ӣ", "ӥ", "ӧ", "ө",
    "ӫ", "ӭ", "ӯ", "ӱ", "ӳ", "ӵ", "ӷ", "ӹ", "ӻ", "ӽ",
    "ӿ", "U+0501", "U+0503", "U+0505", "U+0507", "U+0509", "U+050B", "U+050D", "U+050F", "U+0511",
    "U+0513", "U+0515", "U+0517", "U+0519", "U+051B", "U+051D", "U+051F", "U+0521", "U+0523", "U+0525",
    "U+0527", "U+0529", "U+052B", "U+052D", "U+052F", "U+0561", "U+0562", "U+0563", "U+0564", "U+0565",
    "U+0566", "U+0567", "U+0568", "U+0569", "U+056A", "U+056B", "U+056C", "U+056D", "U+056E", "U+056F",
    "U+0570", "U+0571", "U+0572", "U+0573", "U+0574", "U+0575", "U+0576", "U+0577", "U+0578", "U+0579",
    "U+057A", "U+057B", "U+057C", "U+057D", "U+057E", "U+057F", "ր", "ց", "ւ", "փ",
    "ք", "օ", "ֆ", "U+2D00", "U+2D01", "U+2D02", "U+2D03", "U+2D04", "U+2D05", "U+2D06",
    "U+2D07", "U+2D08", "U+2D09", "U+2D0A", "U+2D0B", "U+2D0C", "U+2D0D", "U+2D0E", "U+2D0F", "U+2D10",
    "U+2D11", "U+2D12", "U+2D13", "U+2D14", "U+2D15", "U+2D16", "U+2D17", "U+2D18", "U+2D19", "U+2D1A",
    "U+2D1B", "U+2D1C", "U+2D1D", "U+2D1E", "U+2D1F", "U+2D20", "U+2D21", "U+2D22", "U+2D23", "U+2D24",
    "U+2D25", "U+2D27", "U+2D2D", "U+AB70", "U+AB71", "U+AB72", "U+AB73", "U+AB74", "U+AB75", "U+AB76",
    "U+AB77", "U+AB78", "U+AB79", "U+AB7A", "U+AB7B", "U+AB7C", "U+AB7D", "U+AB7E", "U+AB7F", "ꮀ",
    "ꮁ", "ꮂ", "ꮃ", "ꮄ", "ꮅ", "ꮆ", "ꮇ", "ꮈ", "ꮉ", "ꮊ",
    "ꮋ", "ꮌ", "ꮍ", "ꮎ", "ꮏ", "ꮐ", "ꮑ", "ꮒ", "ꮓ", "ꮔ",
    "ꮕ", "ꮖ", "ꮗ", "ꮘ", "ꮙ", "ꮚ", "ꮛ", "ꮜ", "ꮝ", "ꮞ",
    "ꮟ", "ꮠ", "ꮡ", "ꮢ", "ꮣ", "ꮤ", "ꮥ", "ꮦ", "ꮧ", "ꮨ",
    "ꮩ", "ꮪ", "ꮫ", "ꮬ", "ꮭ", "ꮮ", "ꮯ", "ꮰ", "ꮱ", "ꮲ",
    "ꮳ", "ꮴ", "ꮵ", "ꮶ", "ꮷ", "ꮸ", "ꮹ", "ꮺ", "ꮻ", "ꮼ",
    "ꮽ", "ꮾ", "ꮿ", "ᏸ", "ᏹ", "ᏺ", "ᏻ", "ᏼ", "ᏽ", "ა",
    "ბ", "გ", "დ", "ე", "ვ", "ზ", "თ", "ი", "კ", "ლ",
    "მ", "ნ", "ო", "პ", "ჟ", "რ", "ს", "ტ", "უ", "ფ",
    "ქ", "ღ", "ყ", "შ", "ჩ", "ც", "ძ", "წ", "ჭ", "ხ",
    "ჯ", "ჰ", "ჱ", "ჲ", "ჳ", "ჴ", "ჵ", "ჶ", "ჷ", "ჸ",
    "ჹ", "ჺ", "ჽ", "ჾ", "ჿ", "U+1E01", "U+1E03", "U+1E05", "U+1E07", "U+1E09",
    "U+1E0B", "U+1E0D", "U+1E0F", "U+1E11", "U+1E13", "U+1E15", "U+1E17", "U+1E19", "U+1E1B", "U+1E1D",
    "U+1E1F", "U+1E21", "U+1E23", "U+1E25", "U+1E27", "U+1E29", "U+1E2B", "U+1E2D", "U+1E2F", "U+1E31",
    "U+1E33", "U+1E35", "U+1E37", "U+1E39", "U+1E3B", "U+1E3D", "U+1E3F", "U+1E41", "U+1E43", "U+1E45",
    "U+1E47", "U+1E49", "U+1E4B", "U+1E4D", "U+1E4F", "U+1E51", "U+1E53", "U+1E55", "U+1E57", "U+1E59",
    "U+1E5B", "U+1E5D", "U+1E5F", "U+1E61", "U+1E63", "U+1E65", "U+1E67", "U+1E69", "U+1E6B", "U+1E6D",
    "U+1E6F", "U+1E71", "U+1E73", "U+1E75", "U+1E77", "U+1E79", "U+1E7B", "U+1E7D", "U+1E7F", "ẁ",
    "ẃ", "ẅ", "ẇ", "ẉ", "ẋ", "ẍ", "ẏ", "ẑ", "ẓ", "ẕ",
    "ß", "ạ", "ả", "ấ", "ầ", "ẩ", "ẫ", "ậ", "ắ", "ằ",
    "ẳ", "ẵ", "ặ", "ẹ", "ẻ", "ẽ", "ế", "ề", "ể", "ễ",
    "ệ", "ỉ", "ị", "ọ", "ỏ", "ố", "ồ", "ổ", "ỗ", "ộ",
    "ớ", "ờ", "ở", "ỡ", "ợ", "ụ", "ủ", "ứ", "ừ", "ử",
    "ữ", "ự", "ỳ", "ỵ", "ỷ", "ỹ", "ỻ", "ỽ", "ỿ", "U+1F00",
    "U+1F01", "U+1F02", "U+1F03", "U+1F04", "U+1F05", "U+1F06", "U+1F07", "U+1F10", "U+1F11", "U+1F12",
    "U+1F13", "U+1F14", "U+1F15", "U+1F20", "U+1F21", "U+1F22", "U+1F23", "U+1F24", "U+1F25", "U+1F26",
    "U+1F27", "U+1F30", "U+1F31", "U+1F32", "U+1F33", "U+1F34", "U+1F35", "U+1F36", "U+1F37", "U+1F40",
    "U+1F41", "U+1F42", "U+1F43", "U+1F44", "U+1F45", "U+1F51", "U+1F53", "U+1F55", "U+1F57", "U+1F60",
    "U+1F61", "U+1F62", "U+1F63", "U+1F64", "U+1F65", "U+1F66", "U+1F67", "ᾀ", "ᾁ", "ᾂ",
    "ᾃ", "ᾄ", "ᾅ", "ᾆ", "ᾇ", "ᾐ", "ᾑ", "ᾒ", "ᾓ", "ᾔ",
    "ᾕ", "ᾖ", "ᾗ", "ᾠ", "ᾡ", "ᾢ", "ᾣ", "ᾤ", "ᾥ", "ᾦ",
    "ᾧ", "ᾰ", "ᾱ", "U+1F70", "U+1F71", "ᾳ", "U+1F72", "U+1F73", "U+1F74", "U+1F75",
    "ῃ", "ῐ", "ῑ", "U+1F76", "U+1F77", "ῠ", "ῡ", "U+1F7A", "U+1F7B", "ῥ",
    "U+1F78", "U+1F79", "U+1F7C", "U+1F7D", "ῳ", "ω", "k", "å", "U+214E", "U+2170",
    "U+2171", "U+2172", "U+2173", "U+2174", "U+2175", "U+2176", "U+2177", "U+2178", "U+2179", "U+217A",
    "U+217B", "U+217C", "U+217D", "U+217E", "U+217F", "ↄ", "ⓐ", "ⓑ", "ⓒ", "ⓓ",
    "ⓔ", "ⓕ", "ⓖ", "ⓗ", "ⓘ", "ⓙ", "ⓚ", "ⓛ", "ⓜ", "ⓝ",
    "ⓞ", "ⓟ", "ⓠ", "ⓡ", "ⓢ", "ⓣ", "ⓤ", "ⓥ", "ⓦ", "ⓧ",
    "ⓨ", "ⓩ", "U+2C30", "U+2C31", "U+2C32", "U+2C33", "U+2C34", "U+2C35", "U+2C36", "U+2C37",
    "U+2C38", "U+2C39", "U+2C3A", "U+2C3B", "U+2C3C", "U+2C3D", "U+2C3E", "U+2C3F", "U+2C40", "U+2C41",
    "U+2C42", "U+2C43", "U+2C44", "U+2C45", "U+2C46", "U+2C47", "U+2C48", "U+2C49", "U+2C4A", "U+2C4B",
    "U+2C4C", "U+2C4D", "U+2C4E", "U+2C4F", "U+2C50", "U+2C51", "U+2C52", "U+2C53", "U+2C54", "U+2C55",
    "U+2C56", "U+2C57", "U+2C58", "U+2C59", "U+2C5A", "U+2C5B", "U+2C5C", "U+2C5D", "U+2C5E", "U+2C5F",
    "U+2C61", "U+026B", "U+1D7D", "U+027D", "U+2C68", "U+2C6A", "U+2C6C", "U+0251", "U+0271", "U+0250",
    "U+0252", "U+2C73", "U+2C76", "U+023F", "U+0240", "ⲁ", "ⲃ", "ⲅ", "ⲇ", "ⲉ",
    "ⲋ", "ⲍ", "ⲏ", "ⲑ", "ⲓ", "ⲕ", "ⲗ", "ⲙ", "ⲛ", "ⲝ",
    "ⲟ", "ⲡ", "ⲣ", "ⲥ", "ⲧ", "ⲩ", "ⲫ", "ⲭ", "ⲯ", "ⲱ",
    "ⲳ", "ⲵ", "ⲷ", "ⲹ", "ⲻ", "ⲽ", "ⲿ", "ⳁ", "ⳃ", "ⳅ",
    "ⳇ", "ⳉ", "ⳋ", "ⳍ", "ⳏ", "ⳑ", "ⳓ", "ⳕ", "ⳗ", "ⳙ",
    "ⳛ", "ⳝ", "ⳟ", "ⳡ", "ⳣ", "ⳬ", "ⳮ", "ⳳ", "U+A641", "U+A643",
    "U+A645", "U+A647", "U+A649", "U+A64B", "U+A64D", "U+A64F", "U+A651", "U+A653", "U+A655", "U+A657",
    "U+A659", "U+A65B", "U+A65D", "U+A65F", "U+A661", "U+A663", "U+A665", "U+A667", "U+A669", "U+A66B",
    "U+A66D", "ꚁ", "ꚃ", "ꚅ", "ꚇ", "ꚉ", "ꚋ", "ꚍ", "ꚏ", "ꚑ",
    "ꚓ", "ꚕ", "ꚗ", "ꚙ", "ꚛ", "U+A723", "U+A725", "U+A727", "U+A729", "U+A72B",
    "U+A72D", "U+A72F", "U+A733", "U+A735", "U+A737", "U+A739", "U+A73B", "U+A73D", "U+A73F", "U+A741",
    "U+A743", "U+A745", "U+A747", "U+A749", "U+A74B", "U+A74D", "U+A74F", "U+A751", "U+A753", "U+A755",
    "U+A757", "U+A759", "U+A75B", "U+A75D", "U+A75F", "U+A761", "U+A763", "U+A765", "U+A767", "U+A769",
    "U+A76B", "U+A76D", "U+A76F", "U+A77A", "U+A77C", "U+1D79", "U+A77F", "ꞁ", "ꞃ", "ꞅ",
    "ꞇ", "ꞌ", "U+0265", "ꞑ", "ꞓ", "ꞗ", "ꞙ", "ꞛ", "ꞝ", "ꞟ",
    "ꞡ", "ꞣ", "ꞥ", "ꞧ", "ꞩ", "U+0266", "U+025C", "U+0261", "U+026C", "U+026A",
    "ʞ", "ʇ", "ʝ", "U+AB53", "ꞵ", "ꞷ", "ꞹ", "ꞻ", "ꞽ", "ꞿ",
    "ꟁ", "ꟃ", "ꞔ", "ʂ", "ᶎ", "ꟈ", "ꟊ", "ꟑ", "ꟗ", "ꟙ",
    "ꟶ", "U+FF41", "U+FF42", "U+FF43", "U+FF44", "U+FF45", "U+FF46", "U+FF47", "U+FF48", "U+FF49",
    "U+FF4A", "U+FF4B", "U+FF4C", "U+FF4D", "U+FF4E", "U+FF4F", "U+FF50", "U+FF51", "U+FF52", "U+FF53",
    "U+FF54", "U+FF55", "U+FF56", "U+FF57", "U+FF58", "U+FF59", "U+FF5A", "U+10428", "U+10429", "U+1042A",
    "U+1042B", "U+1042C", "U+1042D", "U+1042E", "U+1042F", "U+10430", "U+10431", "U+10432", "U+10433", "U+10434",
    "U+10435", "U+10436", "U+10437", "U+10438", "U+10439", "U+1043A", "U+1043B", "U+1043C", "U+1043D", "U+1043E",
    "U+1043F", "U+10440", "U+10441", "U+10442", "U+10443", "U+10444", "U+10445", "U+10446", "U+10447", "U+10448",
    "U+10449", "U+1044A", "U+1044B", "U+1044C", "U+1044D", "U+1044E", "U+1044F", "U+104D8", "U+104D9", "U+104DA",
    "U+104DB", "U+104DC", "U+104DD", "U+104DE", "U+104DF", "U+104E0", "U+104E1", "U+104E2", "U+104E3", "U+104E4",
    "U+104E5", "U+104E6", "U+104E7", "U+104E8", "U+104E9", "U+104EA", "U+104EB", "U+104EC", "U+104ED", "U+104EE",
    "U+104EF", "U+104F0", "U+104F1", "U+104F2", "U+104F3", "U+104F4", "U+104F5", "U+104F6", "U+104F7", "U+104F8",
    "U+104F9", "U+104FA", "U+104FB", "U+10597", "U+10598", "U+10599", "U+1059A", "U+1059B", "U+1059C", "U+1059D",
    "U+1059E", "U+1059F", "U+105A0", "U+105A1", "U+105A3", "U+105A4", "U+105A5", "U+105A6", "U+105A7", "U+105A8",
    "U+105A9", "U+105AA", "U+105AB", "U+105AC", "U+105AD", "U+105AE", "U+105AF", "U+105B0", "U+105B1", "U+105B3",
    "U+105B4", "U+105B5", "U+105B6", "U+105B7", "U+105B8", "U+105B9", "U+105BB", "U+105BC", "U+10CC0", "U+10CC1",
    "U+10CC2", "U+10CC3", "U+10CC4", "U+10CC5", "U+10CC6", "U+10CC7", "U+10CC8", "U+10CC9", "U+10CCA", "U+10CCB",
    "U+10CCC", "U+10CCD", "U+10CCE", "U+10CCF", "U+10CD0", "U+10CD1", "U+10CD2", "U+10CD3", "U+10CD4", "U+10CD5",
    "U+10CD6", "U+10CD7", "U+10CD8", "U+10CD9", "U+10CDA", "U+10CDB", "U+10CDC", "U+10CDD", "U+10CDE", "U+10CDF",
    "U+10CE0", "U+10CE1", "U+10CE2", "U+10CE3", "U+10CE4", "U+10CE5", "U+10CE6", "U+10CE7", "U+10CE8", "U+10CE9",
    "U+10CEA", "U+10CEB", "U+10CEC", "U+10CED", "U+10CEE", "U+10CEF", "U+10CF0", "U+10CF1", "U+10CF2", "U+118C0",
    "U+118C1", "U+118C2", "U+118C3", "U+118C4", "U+118C5", "U+118C6", "U+118C7", "U+118C8", "U+118C9", "U+118CA",
    "U+118CB", "U+118CC", "U+118CD", "U+118CE", "U+118CF", "U+118D0", "U+118D1", "U+118D2", "U+118D3", "U+118D4",
    "U+118D5", "U+118D6", "U+118D7", "U+118D8", "U+118D9", "U+118DA", "U+118DB", "U+118DC", "U+118DD", "U+118DE",
    "U+118DF", "U+16E60", "U+16E61", "U+16E62", "U+16E63", "U+16E64", "U+16E65", "U+16E66", "U+16E67", "U+16E68",
    "U+16E69", "U+16E6A", "U+16E6B", "U+16E6C", "U+16E6D", "U+16E6E", "U+16E6F", "U+16E70", "U+16E71", "U+16E72",
    "U+16E73", "U+16E74", "U+16E75", "U+16E76", "U+16E77", "U+16E78", "U+16E79", "U+16E7A", "U+16E7B", "U+16E7C",
    "U+16E7D", "U+16E7E", "U+16E7F", "U+1E922", "U+1E923", "U+1E924", "U+1E925", "U+1E926", "U+1E927", "U+1E928",
    "U+1E929", "U+1E92A", "U+1E92B", "U+1E92C", "U+1E92D", "U+1E92E", "U+1E92F", "U+1E930", "U+1E931", "U+1E932",
    "U+1E933", "U+1E934", "U+1E935", "U+1E936", "U+1E937", "U+1E938", "U+1E939", "U+1E93A", "U+1E93B", "U+1E93C",
    "U+1E93D", "U+1E93E", "U+1E93F", "U+1E940", "U+1E941", "U+1E942", "U+1E943"
  >>

\* unicode.ToLower on the runes outside ASCII, as a table
UnicodeToLower ==
    [c \in {UnicodeUpper[i] : i \in 1..Len(UnicodeUpper)} |->
        UnicodeLower[CHOOSE i \in 1..Len(UnicodeUpper) : UnicodeUpper[i] = c]]

\* what strings.ToLower does to one rune: 'A'..'Z' and every other upper-case or
\* title-case letter of Unicode go to their lower-case letter
ToLowerChar(c) ==
    IF \E i \in 1..Len(UpperLetters) : UpperLetters[i] = c
    THEN LowerLetters[CHOOSE i \in 1..Len(UpperLetters) : UpperLetters[i] = c]
    ELSE IF c \in DOMAIN UnicodeToLower THEN UnicodeToLower[c] ELSE c

ToLower(s) == [i \in 1..Len(s) |-> ToLowerChar(s[i])]

GitAtPrefix == <<"g","i","t","@">>
HttpsPrefix == <<"h","t","t","p","s",":","/","/">>
HttpPrefix  == <<"h","t","t","p",":","/","/">>
GitSuffix   == <<".","g","i","t">>
FilePrefix  == <<"f","i","l","e",":","/","/">>

\* a normalisation that also drops a trailing slash
normalizeGitURLTrimSlash(url) ==
    LET u1 == IF HasPrefix(url, GitAtPrefix)
              THEN ReplaceFirst(TrimPrefix(url, GitAtPrefix), ":", "/")
              ELSE url
        u2 == TrimPrefix(u1, HttpsPrefix)
        u3 == TrimPrefix(u2, HttpPrefix)
        u4 == TrimSuffix(TrimSuffix(u3, <<"/">>), GitSuffix)
    IN  ToLower(u4)

\* normalizeGitURL: SSH shorthand to host/path, protocol and .git removed, lower case
normalizeGitURL(url) ==
    LET u1 == IF HasPrefix(url, GitAtPrefix)
              THEN ReplaceFirst(TrimPrefix(url, GitAtPrefix), ":", "/")
              ELSE url
        u2 == TrimPrefix(u1, HttpsPrefix)
        u3 == TrimPrefix(u2, HttpPrefix)
        u4 == TrimSuffix(u3, GitSuffix)
    IN  ToLower(u4)

(***************************************************************************)
(* Repository URLs, revisions, charts and ref names the model draws from.  *)
(***************************************************************************)
EmptyURL   == << >>
\* git@gh:o/r.git
SshA       == <<"g","i","t","@","g","h",":","o","/","r",".","g","i","t">>
\* https://gh/o/r.git
HttpsA     == <<"h","t","t","p","s",":","/","/","g","h","/","o","/","r",".","g","i","t">>
\* https://gh/o/r
HttpsANoGit == <<"h","t","t","p","s",":","/","/","g","h","/","o","/","r">>
\* https://GH/O/r.git
HttpsAUpper == <<"h","t","t","p","s",":","/","/","G","H","/","O","/","r",".","g","i","t">>
\* https://gh/o/x.git
HttpsB     == <<"h","t","t","p","s",":","/","/","g","h","/","o","/","x",".","g","i","t">>

\* revisions: a branch, a chart version and a commit identifier
Main    == <<"m","a","i","n">>
ChartV1 == <<"1",".","0">>
HeadSha == <<"a","b","c","1","2","3">>

\* the top-level directory of the working tree: /w
RootDir == <<"/","w">>

\* an ApplicationSource, reduced to the fields shared.go reads
MkSource(url, rev, path, chart, ref) ==
    [repoURL |-> url, targetRevision |-> rev, path |-> path, chart |-> chart, ref |-> ref]

RECURSIVE ListsUpTo(_, _)
\* the sequences over S of length 0..n
ListsUpTo(S, n) ==
    IF n = 0 THEN {<< >>}
    ELSE LET shorter == ListsUpTo(S, n - 1)
         IN  shorter \cup {Append(l, x) : l \in {m \in shorter : Len(m) = n - 1}, x \in S}

(***************************************************************************)
(* validateGitSourcesConstraint                                            *)
(***************************************************************************)
NoError == [kind |-> "none"]

\* fmt.Errorf("source at index %d has empty repoURL", i)
EmptyRepoURLError(i) == [kind |-> "emptyRepoURL", index |-> i]

\* an error message that prints the first Git source's URL twice
DifferentRepoErrorBaseTwice(i, url, first, base) ==
    [kind |-> "differentRepo", index |-> i, repoURL |-> base,
     firstGitSourceIndex |-> first, baseGitRepoURL |-> base]

\* fmt.Errorf("all Git repository sources must use the same repository. Source at
\* index %d uses '%s' but source at index %d (first Git source) uses '%s'", ...)
DifferentRepoError(i, url, first, base) ==
    [kind |-> "differentRepo", index |-> i, repoURL |-> url,
     firstGitSourceIndex |-> first, baseGitRepoURL |-> base]

\* a validation that lets an empty repoURL through
IsEmptyRepoURLNever(source) == FALSE

\* source.RepoURL == ""
IsEmptyRepoURL(source) == source.repoURL = EmptyURL

\* a validation that holds Helm chart sources to the same-repository rule
IsHelmSourceNever(source) == FALSE

\* source.Chart != "": a Helm chart source, skipped by the same-repository rule
IsHelmSource(source) == source.chart # ""

\* a comparison that takes any two repoURLs for the same repository
SameRepoURLAlways(url, base) == TRUE

\* the comparison of a Git source with the first Git source: Go string equality
SameRepoURL(url, base) == url = base

RECURSIVE ValidateFrom(_, _, _, _)
\* the loop of validateGitSourcesConstraint from zero-based index i on
ValidateFrom(srcs, i, baseGitRepoURL, firstGitSourceIndex) ==
    IF i >= Len(srcs) THEN NoError
    ELSE LET source == srcs[i + 1] IN
         IF IsEmptyRepoURL(source) THEN EmptyRepoURLError(i)
         ELSE IF IsHelmSource(source) THEN
             ValidateFrom(srcs, i + 1, baseGitRepoURL, firstGitSourceIndex)
         ELSE IF baseGitRepoURL = EmptyURL THEN
             ValidateFrom(srcs, i + 1, source.repoURL, i)
         ELSE IF ~SameRepoURL(source.repoURL, baseGitRepoURL) THEN
             DifferentRepoError(i, source.repoURL, firstGitSourceIndex, baseGitRepoURL)
         ELSE ValidateFrom(srcs, i + 1, baseGitRepoURL, firstGitSourceIndex)

validateGitSourcesConstraint(srcs) == ValidateFrom(srcs, 0, EmptyURL, -1)

(***************************************************************************)
(* buildRefSources                                                         *)
(***************************************************************************)
\* a reference entry that leaves the revision out
RefTargetWithoutRevision(source) ==
    [targetRevision |-> << >>, repo |-> source.repoURL, chart |-> source.chart]

\* argoappv1.RefTarget as the code fills it: no Path
RefTarget(source) ==
    [targetRevision |-> source.targetRevision, repo |-> source.repoURL, chart |-> source.chart]

\* a key without the "$" of ArgoCD's reference syntax
RefKeyBare(ref) == ref

\* refKey := "$" + source.Ref
RefKey(ref) == "$" \o ref

\* an assignment that keeps the entry already present
MapPutIfAbsent(m, k, v) == [x \in DOMAIN m \cup {k} |-> IF x \in DOMAIN m THEN m[x] ELSE v]

\* m with key k set to v (a Go map assignment)
MapPut(m, k, v) == [x \in DOMAIN m \cup {k} |-> IF x = k THEN v ELSE m[x]]

EmptyMap == [x \in {} |-> x]

RECURSIVE BuildRefFrom(_, _, _)
BuildRefFrom(srcs, i, refs) ==
    IF i >= Len(srcs) THEN refs
    ELSE LET source == srcs[i + 1] IN
         IF source.ref # ""
         THEN BuildRefFrom(srcs, i + 1, MapPut(refs, RefKey(source.ref), RefTarget(source)))
         ELSE BuildRefFrom(srcs, i + 1, refs)

buildRefSources(srcs) == BuildRefFrom(srcs, 0, EmptyMap)

(***************************************************************************)
(* The local working tree: the three git commands shared.go shells out to. *)
(* A command's outcome is [ok, out]: whether it exited with status 0, and  *)
(* what it printed.  The working tree does not change during a pass.       *)
(***************************************************************************)
Newline == <<"\n">>

CmdFailed == [ok |-> FALSE, out |-> << >>]

CmdPrinted(text) == [ok |-> TRUE, out |-> text \o Newline]

\* git config --get remote.origin.url
RemoteOutcomes == {CmdFailed, CmdPrinted(SshA)}

\* git rev-parse --show-toplevel
ToplevelOutcomes == {CmdFailed, CmdPrinted(RootDir)}

\* git -C <path> rev-parse HEAD
HeadOutcomes == {CmdFailed, CmdPrinted(HeadSha)}

\* unicode.IsSpace, the white space strings.TrimSpace strips: '\t', '\n', '\v', '\f',
\* '\r', ' ', U+0085, U+00A0, U+1680, and the spaces and separators from U+2000 on
IsSpace(c) ==
    c \in {"\t", "\n", "", "\f", "\r", " ", "", " ", " ",
           "U+2000", "U+2001", "U+2002", "U+2003", "U+2004", "U+2005", "U+2006", "U+2007",
           "U+2008", "U+2009", "U+200A", "U+2028", "U+2029", "U+202F", "U+205F", "U+3000"}

RECURSIVE TrimLeft(_)
TrimLeft(s) == IF s # << >> /\ IsSpace(Head(s)) THEN TrimLeft(Tail(s)) ELSE s

RECURSIVE TrimRight(_)
TrimRight(s) ==
    IF s # << >> /\ IsSpace(s[Len(s)]) THEN TrimRight(SubSeq(s, 1, Len(s) - 1)) ELSE s

\* strings.TrimSpace
TrimSpace(s) == TrimRight(TrimLeft(s))

\* an entry of the log of external calls and stages of a pass
Event(name, i) == [ev |-> name, index |-> i]

\* a detection that reports an unreadable remote as an error
OnRemoteErrorReported(i) ==
    [isLocal |-> FALSE, localPath |-> << >>, failed |-> TRUE,
     probes |-> <<Event("remote", i)>>]

\* "Not in a git repo or no origin - this is not an error condition": false, "", nil
OnRemoteError(i) ==
    [isLocal |-> FALSE, localPath |-> << >>, failed |-> FALSE,
     probes |-> <<Event("remote", i)>>]

\* normalizedCurrent == normalizedTarget
RemoteMatches(currentRepo, repoURL) == normalizeGitURL(currentRepo) = normalizeGitURL(repoURL)

\* isLocalRepository(repoURL), given what the two git commands do when they are run;
\* probes lists the commands it ran
isLocalRepository(repoURL, i, remote, toplevel) ==
    IF ~remote.ok
    THEN OnRemoteError(i)
    ELSE IF RemoteMatches(TrimSpace(remote.out), repoURL)
    THEN IF ~toplevel.ok
         THEN [isLocal |-> FALSE, localPath |-> << >>, failed |-> TRUE,
               probes |-> <<Event("remote", i), Event("toplevel", i)>>]
         ELSE [isLocal |-> TRUE, localPath |-> TrimSpace(toplevel.out), failed |-> FALSE,
               probes |-> <<Event("remote", i), Event("toplevel", i)>>]
    ELSE [isLocal |-> FALSE, localPath |-> << >>, failed |-> FALSE,
          probes |-> <<Event("remote", i)>>]

\* resolveLocalRevision(repoPath), given what git rev-parse HEAD does
resolveLocalRevision(repoPath, head) ==
    IF ~head.ok
    THEN [failed |-> TRUE, sha |-> << >>]
    ELSE [failed |-> FALSE, sha |-> TrimSpace(head.out)]

\* a caller that takes over resolveLocalRevision's result without reading its error
ResolvedCopyUnchecked(source, rev) == [source EXCEPT !.targetRevision = rev.sha]

\* an assignment made through the caller's own record, without a copy
AssignResolvedInPlace(source, sha) ==
    [original |-> [source EXCEPT !.targetRevision = sha],
     copy     |-> [source EXCEPT !.targetRevision = sha]]

\* "resolvedSources[i] = source; resolvedSources[i].TargetRevision = resolvedRevision"
\* (multi-source) and "sourceCopy := app.Spec.Source.DeepCopy();
\* sourceCopy.TargetRevision = resolvedRevision" (single-source): the assignment goes
\* to a copy, the record of the Application stays as it is
AssignResolved(source, sha) ==
    [original |-> source,
     copy     |-> [source EXCEPT !.targetRevision = sha]]

\* the copy of a locally detected source both callers render: TargetRevision set to
\* the resolved commit, or the source as written when resolveLocalRevision failed
ResolvedCopy(source, rev) ==
    IF rev.failed THEN source ELSE AssignResolved(source, rev.sha).copy

\* the Application's own record of that source afterwards
OriginalAfter(source, rev) ==
    IF rev.failed THEN source ELSE AssignResolved(source, rev.sha).original

(***************************************************************************)
(* Credentials and repository overrides.                                   *)
(***************************************************************************)
\* FindRepoUsername / FindRepoPassword: lookups keyed by the repository URL
FindRepoUsername(url) == <<"username-of", url>>

FindRepoPassword(url) == <<"password-of", url>>

Separator == "/"

\* filepath.ToSlash
ToSlash(path) == [k \in 1..Len(path) |-> IF path[k] = Separator THEN "/" ELSE path[k]]

\* a local override that still carries the credentials of the remote
LocalRepositoryWithCredentials(localPath) ==
    [repo |-> FilePrefix \o ToSlash(localPath), type |-> "git",
     username |-> FindRepoUsername(localPath), password |-> FindRepoPassword(localPath)]

\* the Repository of a local working tree: file:// + path, type git, no credentials
LocalRepository(localPath) ==
    [repo |-> FilePrefix \o ToSlash(localPath), type |-> "git",
     username |-> << >>, password |-> << >>]

\* the Repository of a remote: the source's repoURL and the credentials found for it
RemoteRepository(url) ==
    [repo |-> url, type |-> "",
     username |-> FindRepoUsername(url), password |-> FindRepoPassword(url)]

\* createRepoOverride
createRepoOverride(sourceCopy, localPath) ==
    IF localPath # << >> THEN LocalRepository(localPath) ELSE RemoteRepository(sourceCopy.repoURL)

\* the log entries createRepoOverride leaves: a credential lookup unless local
OverrideEvents(localPath, i) == IF localPath # << >> THEN << >> ELSE <<Event("cred", i)>>

(***************************************************************************)
(* The Application and ArgoCD's helpers on its spec.  spec.source is the   *)
(* pointer Source: << >> for nil, <<s>> otherwise.                         *)
(***************************************************************************)
\* ApplicationSpec.HasMultipleSources and ApplicationSpec.GetSources are methods of
\* the argo-cd library (pkg/apis/application/v1alpha1), which the repository calls
\* and does not contain.  They are written here for an Application that has no
\* spec.sourceHydrator, the only kind of Application this model has: a non-empty
\* .spec.sources list counts as multiple sources and is the list of sources,
\* otherwise .spec.source is the only source.
HasMultipleSources(spec) == Len(spec.sources) > 0

GetSources(spec) ==
    IF HasMultipleSources(spec) THEN spec.sources
    ELSE IF spec.source # << >> THEN <<spec.source[1]>>
    ELSE << >>

ZeroSource == MkSource(<< >>, << >>, "", "", "")

(***************************************************************************)
(* Errors of a generation pass.                                            *)
(***************************************************************************)
\* log.Fatalf("Application '%s' has no source configured ...")
NoSourceConfigured == [kind |-> "noSourceConfigured"]

\* fmt.Errorf("application has no valid source configuration")
NoValidSource == [kind |-> "noValidSource"]

\* fmt.Errorf("no sources found in multi-source application")
NoSourcesFound == [kind |-> "noSourcesFound"]

\* fmt.Errorf("failed to generate manifests: %w", err)
GenerateFailed == [kind |-> "generateFailed"]

\* fmt.Errorf("failed to generate manifests for source %d: %w", i, err)
GenerateFailedForSource(i) == [kind |-> "generateFailedForSource", index |-> i]

(***************************************************************************)
(* The external renderer, repoService.GenerateManifest.                    *)
(***************************************************************************)
\* the j-th manifest returned by the call made for source i
Doc(i, j) == [source |-> i, doc |-> j]

\* how many manifests a successful call returns in the model: none, or several
ManifestCounts == {0, 2}

\* what one GenerateManifest call for source i can answer
RenderOutcomes(i) ==
    {[ok |-> FALSE, manifests |-> << >>]}
        \cup {[ok |-> TRUE, manifests |-> [j \in 1..n |-> Doc(i, j)]] : n \in ManifestCounts}

\* a request that leaves out the reference table and the multi-source flag
ManifestRequestWithoutRefs(source, repo, hasMultipleSources, refs) ==
    [applicationSource |-> source, repo |-> repo,
     hasMultipleSources |-> FALSE, refSources |-> EmptyMap]

\* repoapiclient.ManifestRequest, reduced to the fields that vary
ManifestRequest(source, repo, hasMultipleSources, refs) ==
    [applicationSource |-> source, repo |-> repo,
     hasMultipleSources |-> hasMultipleSources, refSources |-> refs]

\* a concatenation that puts the newest answer first
AppendManifestsInFront(all, docs) == docs \o all

\* allManifests = append(allManifests, response.Manifests...)
AppendManifests(all, docs) == all \o docs

\* a rendering error that hands back what was rendered so far
ManifestsOnErrorPartial(all) == all

\* the manifests returned beside a rendering error: nil
ManifestsOnError(all) == << >>

\* a reference table built from the sources as written, before resolution
RefSourcesInputOriginal(resolved, original) == original

\* the source list buildRefSources is given in generateMultiSourceManifests
RefSourcesInput(resolved, original) == resolved

\* a validation whose error is dropped
ValidationAbortsNever(e) == FALSE

\* "if err := validateGitSourcesConstraint(sources); err != nil { return nil, err }"
ValidationAborts(e) == e # NoError

(***************************************************************************)
(* State.                                                                  *)
(***************************************************************************)
VARIABLES
    app,              \* the Application's spec: [source, sources]
    tree,             \* the working tree the process runs in: what its git commands do
    pc,               \* where the pass is
    route,            \* "none", "single" or "multi": the branch generateAppManifests took
    sources,          \* app.Spec.GetSources(), or the list a helper is applied to
    resolvedSources,  \* resolveLocalRevisions' copy of the sources
    localPaths,       \* resolveLocalRevisions' local path per source (<< >>: none)
    bindings,         \* per source, what local detection and revision resolution found
    refSources,       \* the reference table
    idx,              \* the loop index of the stage in progress
    allManifests,     \* manifests accumulated so far
    manifests,        \* the manifests the generate function returned
    err,              \* the error it returned
    log,              \* stages run and external calls made, in order
    requests,         \* the ManifestRequests sent, in order
    returned,         \* the manifest lists GenerateManifest answered, in order
    args,             \* the arguments of a helper called on its own (<< >>: none)
    result            \* what that helper returned (<< >>: not called yet)

vars == <<app, tree, pc, route, sources, resolvedSources, localPaths, bindings, refSources,
          idx, allManifests, manifests, err, log, requests, returned, args, result>>

\* the sources Applications of the model are made of
AppSources ==
    {MkSource(url, IF chart = "" THEN Main ELSE ChartV1, IF chart = "" THEN "app" ELSE "",
              chart, ref) :
        url \in {EmptyURL, HttpsA, HttpsB}, chart \in {"", "grafana"}, ref \in {"", "configs"}}

\* a .spec.source left beside a .spec.sources list
LeftoverSource == MkSource(HttpsB, Main, "old", "", "")

Apps ==
    {[source |-> src, sources |-> << >>] : src \in {<< >>} \cup {<<s>> : s \in AppSources}}
        \cup {[source |-> src, sources |-> l] :
                src \in {<< >>, <<LeftoverSource>>},
                l \in ListsUpTo(AppSources, MaxAppSources) \ {<< >>}}

\* the working trees; the code runs a command only after the earlier ones succeeded,
\* so the outcome of a command it cannot reach is fixed to failure
Trees ==
    {t \in [remote : RemoteOutcomes, toplevel : ToplevelOutcomes, head : HeadOutcomes] :
        /\ ~t.remote.ok => ~t.toplevel.ok
        /\ ~t.toplevel.ok => ~t.head.ok}

\* a directory outside any git repository
NoTree == [remote |-> CmdFailed, toplevel |-> CmdFailed, head |-> CmdFailed]

Init ==
    /\ app \in Apps
    /\ tree \in Trees
    /\ pc = "start"
    /\ route = "none"
    /\ sources = << >>
    /\ resolvedSources = << >>
    /\ localPaths = << >>
    /\ bindings = << >>
    /\ refSources = EmptyMap
    /\ idx = 0
    /\ allManifests = << >>
    /\ manifests = << >>
    /\ err = NoError
    /\ log = << >>
    /\ requests = << >>
    /\ returned = << >>
    /\ args = << >>
    /\ result = << >>

(***************************************************************************)
(* generateAppManifests: normalise the sources, fail without any, branch.  *)
(***************************************************************************)
\* a check that lets an Application without sources through
HasNoSourcesNever(srcs) == FALSE

\* len(sources) == 0
HasNoSources(srcs) == Len(srcs) = 0

GenerateAppManifests ==
    /\ pc = "start"
    /\ sources' = GetSources(app)
    /\ IF HasNoSources(GetSources(app))
       THEN /\ pc' = "fatal"
            /\ err' = NoSourceConfigured
            /\ route' = route
       ELSE IF HasMultipleSources(app)
       THEN /\ pc' = "multi"
            /\ route' = "multi"
            /\ err' = err
       ELSE /\ pc' = "single"
            /\ route' = "single"
            /\ err' = err
    /\ UNCHANGED <<args, result>>
    /\ UNCHANGED <<app, tree, resolvedSources, localPaths, bindings, refSources, idx,
                   allManifests, manifests, log, requests, returned>>

(***************************************************************************)
(* generateMultiSourceManifests                                            *)
(***************************************************************************)
\* its head: the empty check and validateGitSourcesConstraint
ValidateSources ==
    /\ pc = "multi"
    /\ IF Len(sources) = 0
       THEN /\ err' = NoSourcesFound
            /\ pc' = "fatal"
            /\ log' = log
            /\ UNCHANGED <<resolvedSources, localPaths>>
       ELSE LET e == validateGitSourcesConstraint(sources) IN
            /\ log' = Append(log, Event("validate", 0))
            /\ IF ValidationAborts(e)
               THEN /\ err' = e
                    /\ pc' = "fatal"
                    /\ UNCHANGED <<resolvedSources, localPaths>>
               ELSE /\ err' = err
                    /\ pc' = "resolve"
                    /\ resolvedSources' = [k \in 1..Len(sources) |-> ZeroSource]
                    /\ localPaths' = [k \in 1..Len(sources) |-> << >>]
    /\ idx' = 0
    /\ manifests' = << >>
    /\ UNCHANGED <<args, result>>
    /\ UNCHANGED <<app, tree, route, sources, bindings, refSources, allManifests,
                   requests, returned>>

\* one iteration of the loop of resolveLocalRevisions
ResolveLocalRevisions ==
    /\ pc = "resolve"
    /\ idx < Len(sources)
    /\  LET source == sources[idx + 1]
            det    == isLocalRepository(source.repoURL, idx, tree.remote, tree.toplevel)
            rev    == resolveLocalRevision(det.localPath, tree.head)
        IN  IF ~det.isLocal \/ source.chart # ""
            THEN /\ resolvedSources' = [resolvedSources EXCEPT ![idx + 1] = source]
                 /\ UNCHANGED <<app, sources>>
                 /\ localPaths' = localPaths
                 /\ log' = log \o det.probes
                 /\ bindings' = Append(bindings,
                        [isLocal |-> det.isLocal, rootFailed |-> det.failed,
                         bound |-> FALSE, resolved |-> FALSE, sha |-> << >>])
            ELSE /\ localPaths' = [localPaths EXCEPT ![idx + 1] = det.localPath]
                 /\ log' = log \o det.probes \o <<Event("head", idx)>>
                 /\ resolvedSources' =
                        [resolvedSources EXCEPT ![idx + 1] = ResolvedCopy(source, rev)]
                 /\ sources' = [sources EXCEPT ![idx + 1] = OriginalAfter(source, rev)]
                 /\ app' = [app EXCEPT !.sources[idx + 1] = OriginalAfter(source, rev)]
                 /\ bindings' = Append(bindings,
                        [isLocal |-> TRUE, rootFailed |-> FALSE, bound |-> TRUE,
                         resolved |-> ~rev.failed, sha |-> rev.sha])
    /\ idx' = idx + 1
    /\ UNCHANGED <<args, result>>
    /\ UNCHANGED <<tree, pc, route, refSources, allManifests, manifests, err,
                   requests, returned>>

\* resolveLocalRevisions returns; refSources := buildRefSources(resolvedSources)
BuildRefSources ==
    /\ pc = "resolve"
    /\ idx = Len(sources)
    /\ refSources' = buildRefSources(RefSourcesInput(resolvedSources, sources))
    /\ log' = Append(log, Event("buildRefSources", 0))
    /\ pc' = "render"
    /\ idx' = 0
    /\ UNCHANGED <<args, result>>
    /\ UNCHANGED <<app, tree, route, sources, resolvedSources, localPaths, bindings,
                   allManifests, manifests, err, requests, returned>>

\* one iteration of the rendering loop, and the return after the last one
RenderSource ==
    /\ pc = "render"
    /\ idx < Len(sources)
    /\ LET sourceCopy   == resolvedSources[idx + 1]
           repoOverride == createRepoOverride(sourceCopy, localPaths[idx + 1])
       IN  /\ log' = log \o OverrideEvents(localPaths[idx + 1], idx) \o <<Event("render", idx)>>
           /\ requests' = Append(requests,
                                 ManifestRequest(sourceCopy, repoOverride, TRUE, refSources))
    /\ \E response \in RenderOutcomes(idx) :
        /\ returned' = Append(returned, response)
        /\ IF ~response.ok
           THEN /\ err' = GenerateFailedForSource(idx)
                /\ manifests' = ManifestsOnError(allManifests)
                /\ allManifests' = allManifests
                /\ pc' = "fatal"
                /\ idx' = idx
           ELSE /\ allManifests' = AppendManifests(allManifests, response.manifests)
                /\ err' = err
                /\ idx' = idx + 1
                /\ IF idx + 1 = Len(sources)
                   THEN /\ pc' = "done"
                        /\ manifests' = AppendManifests(allManifests, response.manifests)
                   ELSE /\ pc' = "render"
                        /\ manifests' = manifests
    /\ UNCHANGED <<args, result>>
    /\ UNCHANGED <<app, tree, route, sources, resolvedSources, localPaths, bindings, refSources>>

(***************************************************************************)
(* generateSingleSourceManifest                                            *)
(***************************************************************************)
\* app.Spec.Source == nil || app.Spec.Source.RepoURL == ""
HasNoValidSource(spec) == spec.source = << >> \/ spec.source[1].repoURL = EmptyURL

\* its head: the source check, local detection and the repository override
SingleSourcePrepare ==
    /\ pc = "single"
    /\ IF HasNoValidSource(app)
       THEN /\ err' = NoValidSource
            /\ pc' = "fatal"
            /\ UNCHANGED <<app, resolvedSources, localPaths, bindings, log>>
       ELSE LET source == app.source[1]
                det    == isLocalRepository(source.repoURL, 0, tree.remote, tree.toplevel)
                rev    == resolveLocalRevision(det.localPath, tree.head)
            IN  /\ err' = err
                /\ pc' = "singleRender"
                /\ IF det.isLocal
                   THEN /\ resolvedSources' = <<ResolvedCopy(source, rev)>>
                        /\ app' = [app EXCEPT !.source = <<OriginalAfter(source, rev)>>]
                        /\ localPaths' = <<det.localPath>>
                        /\ log' = log \o det.probes \o <<Event("head", 0)>>
                        /\ bindings' = <<[isLocal |-> TRUE, rootFailed |-> FALSE,
                                          bound |-> TRUE, resolved |-> ~rev.failed,
                                          sha |-> rev.sha]>>
                   ELSE /\ resolvedSources' = <<source>>
                        /\ app' = app
                        /\ localPaths' = << << >> >>
                        /\ log' = log \o det.probes \o <<Event("cred", 0)>>
                        /\ bindings' = <<[isLocal |-> FALSE, rootFailed |-> det.failed,
                                          bound |-> FALSE, resolved |-> FALSE,
                                          sha |-> << >>]>>
    /\ manifests' = << >>
    /\ UNCHANGED <<args, result>>
    /\ UNCHANGED <<tree, route, sources, refSources, idx, allManifests, requests, returned>>

\* the GenerateManifest call and the return
SingleSourceRender ==
    /\ pc = "singleRender"
    /\ LET repoOverride == IF bindings[1].isLocal
                           THEN LocalRepository(localPaths[1])
                           ELSE RemoteRepository(app.source[1].repoURL)
       IN  requests' = Append(requests,
                              ManifestRequest(resolvedSources[1], repoOverride, FALSE, EmptyMap))
    /\ log' = Append(log, Event("render", 0))
    /\ \E response \in RenderOutcomes(0) :
        /\ returned' = Append(returned, response)
        /\ IF ~response.ok
           THEN /\ err' = GenerateFailed
                /\ manifests' = << >>
                /\ pc' = "fatal"
           ELSE /\ err' = err
                /\ manifests' = response.manifests
                /\ pc' = "done"
    /\ UNCHANGED <<args, result>>
    /\ UNCHANGED <<app, tree, route, sources, resolvedSources, localPaths, bindings, refSources,
                   idx, allManifests>>

Next ==
    \/ GenerateAppManifests
    \/ ValidateSources
    \/ ResolveLocalRevisions
    \/ BuildRefSources
    \/ RenderSource
    \/ SingleSourcePrepare
    \/ SingleSourceRender

Spec == Init /\ [][Next]_vars

(***************************************************************************)
(* generateMultiSourceManifests called on its own, as the tests of the     *)
(* validation do, and followed up to the end of the validation.            *)
(***************************************************************************)
ValidateSourceSet ==
    {MkSource(url, Main, "app", chart, "") :
        url \in {EmptyURL, SshA, HttpsA, HttpsANoGit, HttpsAUpper, HttpsB},
        chart \in {"", "grafana"}}

InitValidate ==
    /\ sources \in ListsUpTo(ValidateSourceSet, MaxSources)
    /\ app = [source |-> << >>, sources |-> sources]
    /\ tree = NoTree
    /\ pc = "multi"
    /\ route = "multi"
    /\ resolvedSources = << >>
    /\ localPaths = << >>
    /\ bindings = << >>
    /\ refSources = EmptyMap
    /\ idx = 0
    /\ allManifests = << >>
    /\ manifests = << >>
    /\ err = NoError
    /\ log = << >>
    /\ requests = << >>
    /\ returned = << >>
    /\ args = << >>
    /\ result = << >>

SpecValidate == InitValidate /\ [][ValidateSources]_vars

(***************************************************************************)
(* buildRefSources called on its own, as its tests do.                     *)
(***************************************************************************)
RefSourceSet ==
    {MkSource(o[1], rev, IF o[2] = "" THEN "app" ELSE "", o[2], ref) :
        o \in {<<HttpsA, "">>, <<HttpsB, "">>, <<HttpsB, "grafana">>},
        rev \in {Main, HeadSha},
        ref \in {"", "values", "configs"}}

InitRefs ==
    /\ sources \in ListsUpTo(RefSourceSet, MaxSources)
    /\ app = [source |-> << >>, sources |-> sources]
    /\ tree = NoTree
    /\ pc = "refs"
    /\ route = "none"
    /\ resolvedSources = << >>
    /\ localPaths = << >>
    /\ bindings = << >>
    /\ refSources = EmptyMap
    /\ idx = 0
    /\ allManifests = << >>
    /\ manifests = << >>
    /\ err = NoError
    /\ log = << >>
    /\ requests = << >>
    /\ returned = << >>
    /\ args = << >>
    /\ result = << >>

CallBuildRefSources ==
    /\ pc = "refs"
    /\ refSources' = buildRefSources(sources)
    /\ pc' = "refsBuilt"
    /\ UNCHANGED <<args, result>>
    /\ UNCHANGED <<app, tree, route, sources, resolvedSources, localPaths, bindings, idx,
                   allManifests, manifests, err, log, requests, returned>>

SpecRefs == InitRefs /\ [][CallBuildRefSources]_vars

(***************************************************************************)
(* isLocalRepository called on its own, as its tests do: from a directory  *)
(* of a working tree, from one of its subdirectories, or from a directory  *)
(* outside any working tree.                                               *)
(***************************************************************************)
\* a subdirectory of the working tree: /w/s
SubDir == <<"/","w","/","s">>
\* a directory outside the working tree: /t
OutsideDir == <<"/","t">>
\* http://gh/o/r.git
HttpA == <<"h","t","t","p",":","/","/","g","h","/","o","/","r",".","g","i","t">>

\* a working tree in a directory whose name ends in a form feed: /w\f
FeedDir == <<"/","w","\f">>

Dirs == {RootDir, SubDir, OutsideDir, FeedDir}

\* a working tree: its top-level directory, its remote "origin" (<< >>: none
\* configured) and whether git can resolve the top-level directory
WorkTrees ==
    [root : {RootDir, FeedDir}, origin : {EmptyURL, SshA, HttpsAUpper, HttpsB},
     rootResolves : BOOLEAN]

\* dir is the top-level directory of the working tree or lies below it
InsideTree(dir, worktree) ==
    \/ dir = worktree.root
    \/ HasPrefix(dir, worktree.root \o <<"/">>)

\* git config --get remote.origin.url, run in dir
GitRemoteOriginURL(worktree, dir) ==
    IF InsideTree(dir, worktree) /\ worktree.origin # EmptyURL
    THEN CmdPrinted(worktree.origin)
    ELSE CmdFailed

\* git rev-parse --show-toplevel, run in dir
GitShowToplevel(worktree, dir) ==
    IF InsideTree(dir, worktree) /\ worktree.rootResolves
    THEN CmdPrinted(worktree.root)
    ELSE CmdFailed

DetectURLs == {EmptyURL, SshA, HttpsA, HttpA, HttpsANoGit, HttpsAUpper, HttpsB}

InitDetect ==
    /\ args \in [repoURL : DetectURLs, cwd : Dirs, worktree : WorkTrees]
    /\ tree = [remote |-> GitRemoteOriginURL(args.worktree, args.cwd),
               toplevel |-> GitShowToplevel(args.worktree, args.cwd),
               head |-> CmdFailed]
    /\ result = << >>
    /\ app = [source |-> << >>, sources |-> << >>]
    /\ pc = "detect"
    /\ route = "none"
    /\ sources = << >>
    /\ resolvedSources = << >>
    /\ localPaths = << >>
    /\ bindings = << >>
    /\ refSources = EmptyMap
    /\ idx = 0
    /\ allManifests = << >>
    /\ manifests = << >>
    /\ err = NoError
    /\ log = << >>
    /\ requests = << >>
    /\ returned = << >>

CallIsLocalRepository ==
    /\ pc = "detect"
    /\ result' = isLocalRepository(args.repoURL, 0, tree.remote, tree.toplevel)
    /\ pc' = "detected"
    /\ UNCHANGED <<args, app, tree, route, sources, resolvedSources, localPaths, bindings,
                   refSources, idx, allManifests, manifests, err, log, requests, returned>>

SpecDetect == InitDetect /\ [][CallIsLocalRepository]_vars

(***************************************************************************)
(* normalizeGitURL called on its own, as its tests do, on two repository   *)
(* URLs at a time.  A URL is written from its parts: the spelling of the   *)
(* scheme, host, port, owner, repository name and ending.                  *)
(***************************************************************************)
\* spellings: git@host:owner/repo, https://, http://, an upper-case scheme,
\* and the SSH shorthand of a user other than git
Schemes == {"ssh", "https", "http", "HTTPS", "sshuser"}

SchemePrefix(scheme) ==
    IF scheme = "ssh" THEN GitAtPrefix
    ELSE IF scheme = "https" THEN HttpsPrefix
    ELSE IF scheme = "http" THEN HttpPrefix
    ELSE IF scheme = "HTTPS" THEN <<"H","T","T","P","S",":","/","/">>
    ELSE IF scheme = "sshuser" THEN <<"a","l","@">>
    ELSE << >>

\* the SSH shorthand separates host and path by a colon
IsShorthand(scheme) == scheme \in {"ssh", "sshuser"}

Hosts    == {<<"g","h">>, <<"G","H">>, <<"g","l">>}
Ports    == {<< >>, <<":","8">>}
\* an owner in ASCII, and one outside ASCII in either letter case
Owners   == {<<"o">>, <<"é">>, <<"É">>}
Repos    == {<<"r">>, <<"x">>}
Endings  == {<< >>, GitSuffix, <<"/">>, GitSuffix \o <<"/">>}

OriginRecords ==
    {r \in [scheme : Schemes, host : Hosts, port : Ports, owner : Owners, repo : Repos,
            ending : Endings] :
        r.port # << >> => ~IsShorthand(r.scheme)}

\* the empty string
EmptyOrigin ==
    [scheme |-> "none", host |-> << >>, port |-> << >>, owner |-> << >>, repo |-> << >>,
     ending |-> << >>]

\* the URL as written
OriginString(r) ==
    IF r.scheme = "none" THEN EmptyURL
    ELSE SchemePrefix(r.scheme) \o r.host \o r.port
            \o (IF IsShorthand(r.scheme) THEN <<":">> ELSE <<"/">>)
            \o r.owner \o <<"/">> \o r.repo \o r.ending

InitNormalize ==
    /\ args \in [a : OriginRecords \cup {EmptyOrigin}, b : OriginRecords \cup {EmptyOrigin}]
    /\ result = << >>
    /\ app = [source |-> << >>, sources |-> << >>]
    /\ tree = NoTree
    /\ pc = "normalize"
    /\ route = "none"
    /\ sources = << >>
    /\ resolvedSources = << >>
    /\ localPaths = << >>
    /\ bindings = << >>
    /\ refSources = EmptyMap
    /\ idx = 0
    /\ allManifests = << >>
    /\ manifests = << >>
    /\ err = NoError
    /\ log = << >>
    /\ requests = << >>
    /\ returned = << >>

\* normalizeGitURL applied to both URLs, and once more to the first result
CallNormalizeGitURL ==
    /\ pc = "normalize"
    /\ result' = [a |-> normalizeGitURL(OriginString(args.a)),
                  b |-> normalizeGitURL(OriginString(args.b)),
                  again |-> normalizeGitURL(normalizeGitURL(OriginString(args.a)))]
    /\ pc' = "normalized"
    /\ UNCHANGED <<args, app, tree, route, sources, resolvedSources, localPaths, bindings,
                   refSources, idx, allManifests, manifests, err, log, requests, returned>>

SpecNormalize == InitNormalize /\ [][CallNormalizeGitURL]_vars

(***************************************************************************)
(* filterResources and printResources, applied to the manifests of one     *)
(* Application as generateAndOutputManifests does.  A manifest is the JSON *)
(* text of one resource, reduced to whether it parses and to the kind and  *)
(* name it then has.                                                       *)
(***************************************************************************)
KindPod      == <<"P","o","d">>
KindPodLower == <<"p","o","d">>
KindJob      == <<"J","o","b">>
KindJobLower == <<"j","o","b">>
NoKind       == << >>

\* a manifest that json.Unmarshal rejects
Malformed == [valid |-> FALSE, kind |-> NoKind, name |-> ""]

Manifests ==
    {[valid |-> TRUE, kind |-> k, name |-> n] : k \in {KindPod, KindPodLower, KindJob},
                                                 n \in {"a", "b"}}
        \cup {Malformed}

\* the --kind flag: not given, or a kind in some letter case
KindFilters == {NoKind, KindPodLower, KindPod, KindJobLower}

\* the --output flag
OutputFormats == {"name", "json", "bogus"}

\* a parser that takes every manifest
ParseFailsNever(manifest) == FALSE

\* json.Unmarshal([]byte(manifest), &resource) returns an error
ParseFails(manifest) == ~manifest.valid

\* the unstructured.Unstructured a manifest parses to
Unmarshal(manifest) == [kind |-> manifest.kind, name |-> manifest.name]

\* shouldMatch: the value is non-empty
shouldMatch(v) == Len(v) > 0

\* "shouldMatch(resKind) && resKind != kind", kind being the lower-cased kind
KindExcluded(resKind, kind) == shouldMatch(resKind) /\ resKind # kind

\* an append that puts the newest resource first
AppendResourceInFront(resources, kind, resource) ==
    MapPut(resources, kind,
           IF kind \in DOMAIN resources THEN <<resource>> \o resources[kind]
           ELSE <<resource>>)

\* resources[kind] = append(resources[kind], resource), the group made when missing
AppendResource(resources, kind, resource) ==
    MapPut(resources, kind,
           IF kind \in DOMAIN resources THEN Append(resources[kind], resource)
           ELSE <<resource>>)

RECURSIVE FilterFrom(_, _, _, _)
\* the loop of filterResources from manifest i (one-based) on; errors.CheckError
\* ends the process at the first manifest that does not parse
FilterFrom(manifestList, i, resKind, resources) ==
    IF i > Len(manifestList) THEN [failed |-> FALSE, resources |-> resources]
    ELSE IF ParseFails(manifestList[i]) THEN [failed |-> TRUE, resources |-> EmptyMap]
    ELSE LET resource == Unmarshal(manifestList[i])
             kind     == ToLower(resource.kind)
         IN  IF KindExcluded(resKind, kind)
             THEN FilterFrom(manifestList, i + 1, resKind, resources)
             ELSE FilterFrom(manifestList, i + 1, resKind,
                             AppendResource(resources, kind, resource))

filterResources(manifestList, resKind) == FilterFrom(manifestList, 1, resKind, EmptyMap)

\* the byte order Go compares strings in, for the letters of the model
CharCode(c) ==
    LET order == UpperLetters \o LowerLetters
    IN  CHOOSE k \in 1..Len(order) : order[k] = c

RECURSIVE StringLess(_, _)
\* a < b for Go strings
StringLess(a, b) ==
    IF a = << >> THEN b # << >>
    ELSE IF b = << >> THEN FALSE
    ELSE IF Head(a) = Head(b) THEN StringLess(Tail(a), Tail(b))
    ELSE CharCode(Head(a)) < CharCode(Head(b))

RECURSIVE SortStringsDescending(_)
\* the keys in descending order
SortStringsDescending(S) ==
    IF S = {} THEN << >>
    ELSE LET last == CHOOSE x \in S : \A y \in S \ {x} : StringLess(y, x)
         IN  <<last>> \o SortStringsDescending(S \ {last})

RECURSIVE SortStrings(_)
\* the keys of the map collected into a slice, after sort.Strings
SortStrings(S) ==
    IF S = {} THEN << >>
    ELSE LET first == CHOOSE x \in S : \A y \in S \ {x} : StringLess(x, y)
         IN  <<first>> \o SortStrings(S \ {first})

\* what printResourceNames prints for one kind: a blank line between kinds, the
\* header, and kind/name for every resource of the kind
NameLines(i, kind, group) ==
    (IF i > 1 THEN <<[line |-> "blank"]>> ELSE << >>)
        \o <<[line |-> "NAME"]>>
        \o [k \in 1..Len(group) |-> [line |-> "resource", kind |-> kind, name |-> group[k].name]]

RECURSIVE PrintNamesFrom(_, _, _)
PrintNamesFrom(kinds, i, resources) ==
    IF i > Len(kinds) THEN << >>
    ELSE NameLines(i, kinds[i], resources[kinds[i]]) \o PrintNamesFrom(kinds, i + 1, resources)

\* printResourceNames
printResourceNames(kinds, resources) == PrintNamesFrom(kinds, 1, resources)

\* argocmd.PrintResourceList(resources[kind], output, false) for the first n kinds
PrintLists(kinds, n, resources, output) ==
    [k \in 1..n |-> [line |-> "list", kind |-> kinds[k], format |-> output,
                     resources |-> resources[kinds[k]]]]

InitClassify ==
    /\ args \in [manifests : ListsUpTo(Manifests, MaxManifests), resKind : KindFilters,
                  output : OutputFormats]
    /\ result = << >>
    /\ app = [source |-> << >>, sources |-> << >>]
    /\ tree = NoTree
    /\ pc = "filter"
    /\ route = "none"
    /\ sources = << >>
    /\ resolvedSources = << >>
    /\ localPaths = << >>
    /\ bindings = << >>
    /\ refSources = EmptyMap
    /\ idx = 0
    /\ allManifests = << >>
    /\ manifests = args.manifests
    /\ err = NoError
    /\ log = << >>
    /\ requests = << >>
    /\ returned = << >>

\* resources := filterResources(manifests, resKind)
FilterResources ==
    /\ pc = "filter"
    /\ LET filtered == filterResources(manifests, args.resKind) IN
        IF filtered.failed
        THEN /\ pc' = "exit"
             /\ err' = [kind |-> "malformedManifest"]
             /\ result' = result
        ELSE /\ pc' = "print"
             /\ err' = err
             /\ result' = [resources |-> filtered.resources, printed |-> << >>]
    /\ UNCHANGED <<args, app, tree, route, sources, resolvedSources, localPaths, bindings,
                   refSources, idx, allManifests, manifests, log, requests, returned>>

\* printResources(resources, output); PrintResourceList may fail for any of the kinds
PrintResources ==
    /\ pc = "print"
    /\ LET kinds == SortStrings(DOMAIN result.resources) IN
        IF args.output = "name"
        THEN /\ result' = [result EXCEPT !.printed = printResourceNames(kinds, result.resources)]
             /\ pc' = "printed"
             /\ err' = err
        ELSE IF args.output \in {"json", "yaml"}
        THEN \E failAt \in 0..Len(kinds) :
                IF failAt = 0
                THEN /\ result' = [result EXCEPT !.printed =
                                       PrintLists(kinds, Len(kinds), result.resources, args.output)]
                     /\ pc' = "printed"
                     /\ err' = err
                ELSE /\ result' = [result EXCEPT !.printed =
                                       PrintLists(kinds, failAt - 1, result.resources, args.output)]
                     /\ pc' = "exit"
                     /\ err' = [kind |-> "printFailed"]
        ELSE /\ result' = result
             /\ pc' = "exit"
             /\ err' = [kind |-> "unknownOutputFormat"]
    /\ UNCHANGED <<args, app, tree, route, sources, resolvedSources, localPaths, bindings,
                   refSources, idx, allManifests, manifests, log, requests, returned>>

SpecClassify == InitClassify /\ [][FilterResources \/ PrintResources]_vars

(***************************************************************************)
(* Vocabulary of the properties.                                           *)
(***************************************************************************)
Indices(srcs) == 0..(Len(srcs) - 1)

\* the zero-based indices of the Git (non-chart) sources
GitIndices(srcs) == {i \in Indices(srcs) : srcs[i + 1].chart = ""}

EmptyIndices(srcs) == {i \in Indices(srcs) : srcs[i + 1].repoURL = << >>}

Min(S) == CHOOSE x \in S : \A y \in S : x <= y

Max(S) == CHOOSE x \in S : \A y \in S : x >= y

\* the Git sources whose repoURL is not, literally, that of the first Git source
DifferingIndices(srcs) ==
    {j \in GitIndices(srcs) : srcs[j + 1].repoURL # srcs[Min(GitIndices(srcs)) + 1].repoURL}

InsertAt(l, p, x) == SubSeq(l, 1, p) \o <<x>> \o SubSeq(l, p + 1, Len(l))

\* the head of generateMultiSourceManifests has run on a non-empty list
Validated == pc # "multi" /\ sources # << >>

(***************************************************************************)
(* C1: validateGitSourcesConstraint accepts a source list if and only if   *)
(* every source has a non-empty repoURL and the repoURLs of all Git        *)
(* sources are equal under normalizeGitURL.  The code compares the literal *)
(* strings, so this statement is violated.                                 *)
(***************************************************************************)
C1_AcceptsIffNormalizedEqual ==
    Validated =>
        ((err = NoError) <=>
            /\ EmptyIndices(sources) = {}
            /\ \A i, j \in GitIndices(sources) :
                 normalizeGitURL(sources[i + 1].repoURL) = normalizeGitURL(sources[j + 1].repoURL))

(***************************************************************************)
(* C2: when all repoURLs are non-empty and some Git source's repoURL       *)
(* differs from that of the first Git source, the error names the lowest   *)
(* differing index with its URL and the index of the first Git source with *)
(* its URL, and generateMultiSourceManifests returns that error and nil.   *)
(***************************************************************************)
C2_DifferentRepoReported ==
    (Validated /\ EmptyIndices(sources) = {} /\ GitIndices(sources) # {}
        /\ DifferingIndices(sources) # {}) =>
        LET first == Min(GitIndices(sources))
            i     == Min(DifferingIndices(sources))
        IN  /\ err = [kind |-> "differentRepo", index |-> i,
                      repoURL |-> sources[i + 1].repoURL,
                      firstGitSourceIndex |-> first,
                      baseGitRepoURL |-> sources[first + 1].repoURL]
            /\ pc = "fatal"
            /\ manifests = << >>
            /\ requests = << >>

\* a Helm chart first, then two Git sources of different repositories: indices 1 and 2
C2_Witness ==
    /\ pc = "fatal"
    /\ Len(sources) = 3
    /\ err.kind = "differentRepo"
    /\ err.firstGitSourceIndex = 1
    /\ err.index = 2
    /\ err.repoURL = HttpsB
    /\ err.baseGitRepoURL = HttpsA

(***************************************************************************)
(* C3: Helm chart sources never cause a same-repository violation: a list  *)
(* of chart sources only, with non-empty repoURLs, is valid whatever the   *)
(* URLs are, and inserting a chart source with a non-empty repoURL at any  *)
(* position of a valid list leaves it valid.                               *)
(***************************************************************************)
C3_ChartSourcesExempt ==
    Validated =>
        /\ (GitIndices(sources) = {} /\ EmptyIndices(sources) = {}) => err = NoError
        /\ err = NoError =>
             \A p \in 0..Len(sources) :
               \A r \in {s \in ValidateSourceSet : s.chart # "" /\ s.repoURL # << >>} :
                 validateGitSourcesConstraint(InsertAt(sources, p, r)) = NoError

\* accepted: two chart sources of different registries around a Git source
C3_Witness ==
    /\ pc = "resolve"
    /\ err = NoError
    /\ Len(sources) = 3
    /\ sources[1].chart # "" /\ sources[1].repoURL = HttpsA
    /\ sources[2].chart = "" /\ sources[2].repoURL = SshA
    /\ sources[3].chart # "" /\ sources[3].repoURL = HttpsB

(***************************************************************************)
(* C4: a source with an empty repoURL, chart or not, makes the validation  *)
(* fail and the pass return no manifests; the error names the lowest index *)
(* with an empty repoURL unless Git sources below it already differ, and   *)
(* exactly one violation is reported.                                      *)
(***************************************************************************)
C4_EmptyRepoURLReported ==
    (Validated /\ EmptyIndices(sources) # {}) =>
        LET i     == Min(EmptyIndices(sources))
            below == SubSeq(sources, 1, i)
        IN  /\ err # NoError
            /\ pc = "fatal"
            /\ manifests = << >>
            /\ requests = << >>
            /\ IF GitIndices(below) = {} \/ DifferingIndices(below) = {}
               THEN err = [kind |-> "emptyRepoURL", index |-> i]
               ELSE err.kind = "differentRepo" /\ err.index < i

\* a chart source with an empty repoURL at index 2, after two valid sources
C4_Witness ==
    /\ pc = "fatal"
    /\ Len(sources) = 3
    /\ sources[3].chart # ""
    /\ err = [kind |-> "emptyRepoURL", index |-> 2]

(***************************************************************************)
(* Vocabulary of the properties of a whole pass.                           *)
(***************************************************************************)
LogCount(name) == Cardinality({k \in 1..Len(log) : log[k].ev = name})

ProbeEvents == {"remote", "toplevel", "head"}

\* the stage an entry of the log belongs to
StageOf(e) ==
    IF e.ev = "validate" THEN 0
    ELSE IF e.ev \in ProbeEvents THEN 1
    ELSE IF e.ev = "buildRefSources" THEN 2
    ELSE 3

\* the source list breaks the rule of validateGitSourcesConstraint as the code applies it
BreaksConstraint(srcs) ==
    \/ EmptyIndices(srcs) # {}
    \/ GitIndices(srcs) # {} /\ DifferingIndices(srcs) # {}

\* the indices of the sources rendered, in the order of the calls
RECURSIVE RenderOrder(_)
RenderOrder(l) ==
    IF l = << >> THEN << >>
    ELSE IF Head(l).ev = "render" THEN <<Head(l).index>> \o RenderOrder(Tail(l))
    ELSE RenderOrder(Tail(l))

\* the answers of the renderer, one after the other
RECURSIVE Flatten(_)
Flatten(answers) ==
    IF answers = << >> THEN << >> ELSE Head(answers).manifests \o Flatten(Tail(answers))

RECURSIVE SumLen(_)
SumLen(answers) ==
    IF answers = << >> THEN 0 ELSE Len(Head(answers).manifests) + SumLen(Tail(answers))

\* some GenerateManifest call of the pass has failed
RenderFailed == \E k \in 1..Len(returned) : ~returned[k].ok

\* buildRefSources has run in this pass
TableBuilt == LogCount("buildRefSources") > 0

(***************************************************************************)
(* C5: in the multi-source path the stages run in the order validate,      *)
(* resolve local revisions (for every source), build the reference table,  *)
(* render; validation runs exactly once and, when it fails, no git         *)
(* command is run, no credential is looked up and nothing is rendered.     *)
(***************************************************************************)
C5_StagesInOrder ==
    route = "multi" =>
        /\ pc = "multi" => log = << >>
        /\ pc # "multi" => LogCount("validate") = 1 /\ log[1].ev = "validate"
        /\ \A k \in 1..(Len(log) - 1) : StageOf(log[k]) <= StageOf(log[k + 1])
        /\ LogCount("buildRefSources") <= 1
        /\ TableBuilt => LogCount("remote") = Len(sources)
        /\ LogCount("render") > 0 => TableBuilt
        /\ (pc # "multi" /\ BreaksConstraint(sources)) =>
              /\ log = <<[ev |-> "validate", index |-> 0]>>
              /\ requests = << >>
              /\ pc = "fatal"

\* a pass stopped by the validation, with nothing but the validation in its log
C5_Witness ==
    /\ route = "multi"
    /\ pc = "fatal"
    /\ err.kind = "differentRepo"
    /\ log = <<[ev |-> "validate", index |-> 0]>>

(***************************************************************************)
(* C6: a pass in which every GenerateManifest call succeeds calls it once  *)
(* per source, in ascending order of the index, and returns the answers    *)
(* concatenated in that order; two sources of one repository, the second   *)
(* with ref "configs", give a reference table with the one key "$configs". *)
(***************************************************************************)
C6_OneCallPerSourceInOrder ==
    pc = "done" =>
        /\ Len(requests) = Len(sources)
        /\ RenderOrder(log) = [k \in 1..Len(sources) |-> k - 1]
        /\ \A k \in 1..Len(sources) :
             /\ requests[k].applicationSource.repoURL = sources[k].repoURL
             /\ requests[k].applicationSource.path = sources[k].path
             /\ requests[k].applicationSource.chart = sources[k].chart
             /\ requests[k].applicationSource.ref = sources[k].ref
        /\ manifests = Flatten(returned)
        /\ Len(manifests) = SumLen(returned)
        /\ (/\ route = "multi"
            /\ Len(sources) = 2
            /\ sources[1].repoURL = sources[2].repoURL
            /\ sources[1].ref = ""
            /\ sources[2].ref = "configs") => DOMAIN refSources = {"$configs"}

\* two Git sources of one repository, the second named "configs", one manifest each
C6_Witness ==
    /\ pc = "done"
    /\ route = "multi"
    /\ Len(sources) = 2
    /\ sources[1].chart = "" /\ sources[2].chart = ""
    /\ sources[1].ref = "" /\ sources[2].ref = "configs"
    /\ DOMAIN refSources = {"$configs"}
    /\ manifests = <<[source |-> 0, doc |-> 1], [source |-> 0, doc |-> 2],
                    [source |-> 1, doc |-> 1], [source |-> 1, doc |-> 2]>>

(***************************************************************************)
(* C7, as claimed: whenever GenerateManifest fails for source i, on the    *)
(* multi-source and on the single-source path alike, the error reports the *)
(* index i, no manifests are returned, no later source is rendered and the *)
(* call is not retried.  Violated: the single-source error has no index.   *)
(***************************************************************************)
C7_IndexReportedOnEveryPath ==
    RenderFailed =>
        /\ "index" \in DOMAIN err
        /\ err.index = Len(requests) - 1
        /\ manifests = << >>
        /\ pc = "fatal"
        /\ \A k \in 1..(Len(returned) - 1) : returned[k].ok
        /\ RenderOrder(log) = [k \in 1..Len(requests) |-> k - 1]

(***************************************************************************)
(* C7, amended: whenever GenerateManifest fails for source i the pass      *)
(* stops there: no manifests are returned, no later source is rendered and *)
(* the call is not retried; the error reports the index i on the           *)
(* multi-source path and carries no index on the single-source path.       *)
(***************************************************************************)
C7_RenderFailureAborts ==
    RenderFailed =>
        /\ manifests = << >>
        /\ pc = "fatal"
        /\ Len(returned) = Len(requests)
        /\ \A k \in 1..(Len(returned) - 1) : returned[k].ok
        /\ RenderOrder(log) = [k \in 1..Len(requests) |-> k - 1]
        /\ route = "multi" =>
             err = [kind |-> "generateFailedForSource", index |-> Len(requests) - 1]
        /\ route = "single" => err = [kind |-> "generateFailed"]

\* the second source fails after the first one returned a manifest
C7_Witness ==
    /\ route = "multi"
    /\ pc = "fatal"
    /\ Len(returned) = 2
    /\ returned[1].ok /\ returned[1].manifests # << >>
    /\ ~returned[2].ok
    /\ err = [kind |-> "generateFailedForSource", index |-> 1]
    /\ manifests = << >>

(***************************************************************************)
(* C8, as claimed: once the reference table is built, every Git source     *)
(* with a ref that was detected as local and whose HEAD was resolved has   *)
(* the resolved commit under "$" + ref.  Violated when a later source      *)
(* carries the same ref.                                                   *)
(***************************************************************************)
C8_EveryLocalRefCarriesResolved ==
    (route = "multi" /\ TableBuilt) =>
        \A i \in Indices(sources) :
            (/\ sources[i + 1].chart = ""
             /\ sources[i + 1].ref # ""
             /\ bindings[i + 1].bound
             /\ bindings[i + 1].resolved) =>
                /\ ("$" \o sources[i + 1].ref) \in DOMAIN refSources
                /\ refSources["$" \o sources[i + 1].ref].targetRevision = bindings[i + 1].sha

(***************************************************************************)
(* C8, amended: the reference table is built after every source has gone   *)
(* through local resolution, and every Git source with a ref that no later *)
(* source carries, detected as local and with its HEAD resolved, has the   *)
(* resolved commit under "$" + ref.                                        *)
(***************************************************************************)
C8_LastLocalRefCarriesResolved ==
    (route = "multi" /\ TableBuilt) =>
        /\ Len(bindings) = Len(sources)
        /\ \A i \in Indices(sources) :
            (/\ sources[i + 1].chart = ""
             /\ sources[i + 1].ref # ""
             /\ bindings[i + 1].bound
             /\ bindings[i + 1].resolved
             /\ \A j \in Indices(sources) : j > i => sources[j + 1].ref # sources[i + 1].ref) =>
                /\ ("$" \o sources[i + 1].ref) \in DOMAIN refSources
                /\ refSources["$" \o sources[i + 1].ref].targetRevision = bindings[i + 1].sha

\* a local Git source on branch main, named "configs": the table holds HEAD's commit
C8_Witness ==
    /\ route = "multi"
    /\ TableBuilt
    /\ Len(sources) = 2
    /\ sources[2].chart = ""
    /\ sources[2].ref = "configs"
    /\ sources[2].targetRevision = Main
    /\ bindings[2].bound /\ bindings[2].resolved
    /\ refSources["$configs"].targetRevision = HeadSha

(***************************************************************************)
(* C9: the keys of buildRefSources' table are exactly "$" + ref for the    *)
(* sources with a non-empty ref; a key maps to the targetRevision, repoURL *)
(* and chart (and nothing else, no path) of the source carrying that ref,  *)
(* the last one when several do; without any ref the table is empty.       *)
(***************************************************************************)
C9_TableOfRefs ==
    pc = "refsBuilt" =>
        LET named == {k \in 1..Len(sources) : sources[k].ref # ""} IN
        /\ DOMAIN refSources = {"$" \o sources[k].ref : k \in named}
        /\ named = {} => refSources = << >>
        /\ \A k \in named :
             LET last == Max({j \in named : sources[j].ref = sources[k].ref})
             IN  refSources["$" \o sources[k].ref] =
                     [targetRevision |-> sources[last].targetRevision,
                      repo |-> sources[last].repoURL,
                      chart |-> sources[last].chart]

\* one source with ref "values" at revision abc123, beside a chart source without ref
C9_Witness ==
    /\ pc = "refsBuilt"
    /\ Len(sources) = 2
    /\ sources[1].chart # "" /\ sources[1].ref = ""
    /\ sources[2].ref = "values" /\ sources[2].targetRevision = HeadSha
    /\ DOMAIN refSources = {"$values"}
    /\ refSources["$values"].targetRevision = HeadSha

\* isLocalRepository matched the remote for some source but could not get the root
RootFailed == \E k \in 1..Len(bindings) : bindings[k].rootFailed

(***************************************************************************)
(* C11: when a source's repoURL matches the working tree's remote but      *)
(* git rev-parse --show-toplevel fails, the pass aborts with an error: no  *)
(* source is rendered after that and the pass does not end successfully.   *)
(* The callers drop isLocalRepository's error, so this is violated.        *)
(***************************************************************************)
C11_RootFailureIsFatal ==
    RootFailed =>
        /\ requests = << >>
        /\ pc # "done"
        /\ pc = "fatal" => err.kind = "environmentProbe"

\* the sources detected as local whose HEAD could not be resolved, by position
Unresolved == {k \in 1..Len(bindings) : bindings[k].bound /\ ~bindings[k].resolved}

(***************************************************************************)
(* C12: a failure of resolveLocalRevision for a locally detected source    *)
(* never aborts the pass: the source keeps the targetRevision it was       *)
(* written with and is rendered from the local tree, the sources that are  *)
(* not local are rendered as written against their own repoURL, and a pass *)
(* with such a failure is aborted by a failing renderer call only.         *)
(***************************************************************************)
C12_ResolutionFailureDegrades ==
    Unresolved # {} =>
        /\ \A k \in Unresolved :
             /\ resolvedSources[k] = sources[k]
             /\ k <= Len(requests) =>
                  /\ requests[k].applicationSource = sources[k]
                  /\ requests[k].repo = LocalRepository(RootDir)
        /\ \A k \in 1..Len(bindings) :
             ~bindings[k].bound =>
                  /\ resolvedSources[k] = sources[k]
                  /\ k <= Len(requests) =>
                       /\ requests[k].applicationSource = sources[k]
                       /\ requests[k].repo = RemoteRepository(sources[k].repoURL)
        /\ pc = "fatal" => RenderFailed
        /\ pc = "done" => Len(requests) = Len(sources)

\* a local Git source keeps "main" after a failed resolution and is rendered beside a chart
C12_Witness ==
    /\ route = "multi"
    /\ pc = "done"
    /\ Len(sources) = 2
    /\ Unresolved = {1}
    /\ sources[2].chart = "grafana"
    /\ requests[1].applicationSource.targetRevision = Main
    /\ requests[1].repo = LocalRepository(RootDir)
    /\ requests[2].repo = RemoteRepository(HttpsB)
    /\ manifests # << >>

\* the working tree's remote can be read from the directory of the call
RemoteReadable == InsideTree(args.cwd, args.worktree) /\ args.worktree.origin # EmptyURL

\* the remote and the repoURL asked about are the same under normalizeGitURL
SameNormalized == normalizeGitURL(args.worktree.origin) = normalizeGitURL(args.repoURL)

(***************************************************************************)
(* C13: isLocalRepository answers isLocal = true exactly when the remote   *)
(* of the working tree can be read, equals the repoURL under               *)
(* normalizeGitURL, and the top-level directory resolves; the path it      *)
(* returns is then the top-level directory of the tree, from whichever     *)
(* directory of the tree the call is made, never the subdirectory.         *)
(* Violated: the path is what git prints with the white space at its ends  *)
(* removed, so for a tree in a directory whose name ends in white space    *)
(* it is another directory than the top-level directory.                   *)
(***************************************************************************)
C13_LocalIffMatchAndRoot ==
    pc = "detected" =>
        /\ result.isLocal <=>
               (RemoteReadable /\ SameNormalized /\ args.worktree.rootResolves)
        /\ result.isLocal =>
               /\ result.localPath = args.worktree.root
               /\ ~result.failed
               /\ (args.cwd # args.worktree.root => result.localPath # args.cwd)

(***************************************************************************)
(* C14: isLocalRepository answers (false, "", no error) whenever the       *)
(* remote cannot be read (outside a working tree, or no origin) and        *)
(* whenever the normalised remote differs from the normalised repoURL; the *)
(* path is non-empty only if isLocal is true, and an error comes with      *)
(* isLocal false.                                                          *)
(***************************************************************************)
C14_NotLocalWithoutError ==
    pc = "detected" =>
        /\ (~RemoteReadable \/ ~SameNormalized) =>
               /\ ~result.isLocal
               /\ result.localPath = << >>
               /\ ~result.failed
        /\ result.localPath # << >> => result.isLocal
        /\ result.failed => ~result.isLocal

\* called from /t, outside the working tree, about the tree's own remote
C14_Witness ==
    /\ pc = "detected"
    /\ args.cwd = OutsideDir
    /\ args.repoURL = SshA
    /\ args.worktree.origin = SshA
    /\ result = [isLocal |-> FALSE, localPath |-> << >>, failed |-> FALSE,
                 probes |-> <<[ev |-> "remote", index |-> 0]>>]

(***************************************************************************)
(* C15: normalizeGitURL is idempotent: applied to its own result it        *)
(* returns that result.  Violated: a scheme in upper case is lower-cased   *)
(* by the first application and stripped by the second.                    *)
(***************************************************************************)
C15_NormalizeIdempotent ==
    pc = "normalized" => result.again = result.a

\* host, owner and repository name of a URL of the model, letter case aside
Location(r) == <<ToLower(r.host), ToLower(r.owner), ToLower(r.repo)>>

\* the URL is written in the SSH shorthand of user git or with https:// or http://,
\* the scheme in either case, with or without a trailing .git, and without a port
PlainSpelling(r) ==
    /\ r.scheme \in {"ssh", "https", "http", "HTTPS"}
    /\ r.port = << >>
    /\ r.ending \in {<< >>, GitSuffix}

(***************************************************************************)
(* C16: two URLs of the same host, owner and repository that differ only   *)
(* in the SSH / https:// / http:// spelling, a trailing .git and the       *)
(* letter case of any part of the string have the same normalizeGitURL.    *)
(* Violated: a scheme written in upper case is not stripped.               *)
(***************************************************************************)
C16_SpellingsNormalizeEqual ==
    (/\ pc = "normalized"
     /\ PlainSpelling(args.a)
     /\ PlainSpelling(args.b)
     /\ Location(args.a) = Location(args.b)) => result.a = result.b

(***************************************************************************)
(* C17: two URLs that differ in host, owner or repository name (by more    *)
(* than letter case) have different normalizeGitURL, whatever their        *)
(* spelling, port and ending.                                              *)
(***************************************************************************)
C17_DifferentLocationsStayDifferent ==
    (/\ pc = "normalized"
     /\ args.a # EmptyOrigin
     /\ args.b # EmptyOrigin
     /\ Location(args.a) # Location(args.b)) => result.a # result.b

\* git@gh:o/r.git and https://gh/o/x.git: the same host and owner, another repository
C17_Witness ==
    /\ pc = "normalized"
    /\ OriginString(args.a) = SshA
    /\ OriginString(args.b) = HttpsB
    /\ result.a = <<"g","h","/","o","/","r">>
    /\ result.b = <<"g","h","/","o","/","x">>

\* host/owner/repo of a URL in SSH shorthand, a trailing .git removed, in lower case
ShorthandNormalForm(r) ==
    ToLower(TrimSuffix(r.host \o <<"/">> \o r.owner \o <<"/">> \o r.repo \o r.ending, GitSuffix))

(***************************************************************************)
(* C18, as claimed: normalizeGitURL rewrites the SSH shorthand             *)
(* user@host:owner/repo to host/owner/repo for every user name, then       *)
(* strips a trailing .git and lower-cases.  Violated for a user other than *)
(* git: only the prefix "git@" is recognised.                              *)
(***************************************************************************)
C18_ShorthandOfAnyUser ==
    (pc = "normalized" /\ IsShorthand(args.a.scheme)) =>
        result.a = ShorthandNormalForm(args.a)

(***************************************************************************)
(* C18, amended: normalizeGitURL rewrites the SSH shorthand of user git,   *)
(* git@host:owner/repo, to host/owner/repo, then strips a trailing .git    *)
(* and lower-cases; git@github.com:owner/repo.git gives                    *)
(* github.com/owner/repo.  The shorthand of another user is left as        *)
(* written, apart from a trailing .git and the letter case.                *)
(***************************************************************************)
C18_ShorthandOfUserGit ==
    pc = "normalized" =>
        /\ args.a.scheme = "ssh" => result.a = ShorthandNormalForm(args.a)
        /\ args.a.scheme = "sshuser" =>
               result.a = ToLower(TrimSuffix(OriginString(args.a), GitSuffix))

\* git@GH:o/r.git gives gh/o/r
C18_Witness ==
    /\ pc = "normalized"
    /\ OriginString(args.a) = <<"g","i","t","@","G","H",":","o","/","r",".","g","i","t">>
    /\ result.a = <<"g","h","/","o","/","r">>

\* the ending of a URL without its trailing slash
WithoutSlash(ending) == TrimSuffix(ending, <<"/">>)

(***************************************************************************)
(* C19: normalizeGitURL returns a string for every input and strips        *)
(* neither a port nor a trailing slash: a URL with a port and the same URL *)
(* without it, and a URL with a trailing slash and the same URL without    *)
(* it, have different results; the empty string gives the empty string.    *)
(***************************************************************************)
C19_PortAndSlashKept ==
    pc = "normalized" =>
        /\ result.a \in Seq({result.a[k] : k \in 1..Len(result.a)})
        /\ args.a = EmptyOrigin => result.a = << >>
        /\ (args.a.port # << >> /\ args.b = [args.a EXCEPT !.port = << >>]) =>
               result.a # result.b
        /\ (/\ args.a.ending # WithoutSlash(args.a.ending)
            /\ args.b = [args.a EXCEPT !.ending = WithoutSlash(args.a.ending)]) =>
               /\ result.a # result.b
               /\ result.a[Len(result.a)] = "/"

\* https://gh:8/o/r.git/ beside https://gh:8/o/r.git: port and slash are kept
C19_Witness ==
    /\ pc = "normalized"
    /\ args.a = [scheme |-> "https", host |-> <<"g","h">>, port |-> <<":","8">>,
                 owner |-> <<"o">>, repo |-> <<"r">>, ending |-> GitSuffix \o <<"/">>]
    /\ args.b = [args.a EXCEPT !.ending = GitSuffix]
    /\ result.a = <<"g","h",":","8","/","o","/","r",".","g","i","t","/">>
    /\ result.b = <<"g","h",":","8","/","o","/","r">>

\* the sources detected as local whose HEAD was resolved, by position
Resolved == {k \in 1..Len(bindings) : bindings[k].bound /\ bindings[k].resolved}

(***************************************************************************)
(* C20: a pass never changes the Application it is given: no step changes  *)
(* a field of a source of .spec.source or .spec.sources, nor the list      *)
(* GetSources returned; a resolved commit is found only in the copy handed *)
(* to the renderer and in the reference table, while the Application keeps *)
(* the targetRevision it was written with.                                 *)
(***************************************************************************)
C20_InputNeverMutated ==
    /\ [][app' = app /\ (pc # "start" => sources' = sources)]_vars
    /\ [](\A k \in Resolved :
             /\ sources[k] = GetSources(app)[k]
             /\ resolvedSources[k] = [sources[k] EXCEPT !.targetRevision = bindings[k].sha]
             /\ resolvedSources[k].targetRevision # sources[k].targetRevision
             /\ k <= Len(requests) => requests[k].applicationSource = resolvedSources[k])

\* a finished multi-source pass: the renderer and the table got the commit, the
\* Application still says main
C20_Witness ==
    /\ route = "multi"
    /\ pc = "done"
    /\ Len(sources) = 2
    /\ Resolved = {1, 2}
    /\ DOMAIN refSources = {"$configs"}
    /\ app.sources[1].targetRevision = Main
    /\ app.sources[2].targetRevision = Main
    /\ requests[1].applicationSource.targetRevision = HeadSha
    /\ requests[2].applicationSource.targetRevision = HeadSha
    /\ refSources["$configs"].targetRevision = HeadSha

\* the credential lookups made for source i (zero-based) so far
CredLookups(i) == Cardinality({k \in 1..Len(log) : log[k] = [ev |-> "cred", index |-> i]})

(***************************************************************************)
(* C21: FindRepoUsername / FindRepoPassword are consulted only for sources *)
(* that are not rendered from the local tree: a source rendered with the   *)
(* override "file://" + root, type git, has had no credential lookup and   *)
(* its override carries no credentials; every other source is rendered     *)
(* with its own repoURL and the credentials looked up for that repoURL.    *)
(***************************************************************************)
C21_CredentialsOnlyForRemote ==
    \A k \in 1..Len(requests) :
        IF localPaths[k] # << >>
        THEN /\ requests[k].repo = [repo |-> FilePrefix \o localPaths[k], type |-> "git",
                                    username |-> << >>, password |-> << >>]
             /\ localPaths[k] = RootDir
             /\ CredLookups(k - 1) = 0
        ELSE /\ requests[k].repo.repo = sources[k].repoURL
             /\ requests[k].repo.username = FindRepoUsername(sources[k].repoURL)
             /\ requests[k].repo.password = FindRepoPassword(sources[k].repoURL)
             /\ requests[k].repo.type = ""
             /\ CredLookups(k - 1) = 1

\* a local Git source rendered from file:///w beside a chart rendered with credentials
C21_Witness ==
    /\ route = "multi"
    /\ pc = "done"
    /\ Len(requests) = 2
    /\ localPaths = <<RootDir, << >> >>
    /\ requests[1].repo.repo = <<"f","i","l","e",":","/","/","/","w">>
    /\ requests[1].repo.username = << >>
    /\ requests[2].repo.repo = HttpsB
    /\ requests[2].repo.username = FindRepoUsername(HttpsB)
    /\ CredLookups(0) = 0
    /\ CredLookups(1) = 1

\* the positions of the manifests whose kind is k, letter case aside
PositionsOfKind(k) ==
    {p \in 1..Len(manifests) : ToLower(manifests[p].kind) = ToLower(k)}

\* the resources at the given positions of the manifest list, in the order of the list
RECURSIVE ResourcesAt(_, _)
ResourcesAt(positions, from) ==
    IF from > Len(manifests) THEN << >>
    ELSE (IF from \in positions THEN <<Unmarshal(manifests[from])>> ELSE << >>)
            \o ResourcesAt(positions, from + 1)

\* every manifest of the list parses
AllParse == \A p \in 1..Len(manifests) : manifests[p].valid

\* filterResources has returned
Classified == pc \in {"print", "printed"} \/ (pc = "exit" /\ result # << >>)

(***************************************************************************)
(* C22: filterResources compares kinds without regard to letter case: for  *)
(* a requested kind in any letter case the result holds exactly the        *)
(* resources whose kind equals it ignoring case, under the lower-cased     *)
(* kind; with no requested kind every resource is kept.  Violated: the     *)
(* requested kind is compared as written with the lower-cased kind.        *)
(***************************************************************************)
C22_KindFilterIgnoresCase ==
    Classified =>
        LET wanted == IF args.resKind = NoKind THEN 1..Len(manifests)
                      ELSE PositionsOfKind(args.resKind)
            keys   == {ToLower(manifests[p].kind) : p \in wanted}
        IN  /\ DOMAIN result.resources = keys
            /\ \A k \in keys :
                 result.resources[k] = ResourcesAt(wanted \cap PositionsOfKind(k), 1)

(***************************************************************************)
(* C25: when some manifest of the list does not parse, filterResources     *)
(* fails for the whole call, wherever the manifest stands and whatever the *)
(* requested kind: no grouping is returned and nothing is printed.         *)
(***************************************************************************)
C25_MalformedManifestIsFatal ==
    ~AllParse =>
        /\ pc \in {"filter", "exit"}
        /\ result = << >>
        /\ pc = "exit" => err = [kind |-> "malformedManifest"]

\* a malformed manifest after a Pod, with only Jobs asked for
C25_Witness ==
    /\ pc = "exit"
    /\ Len(manifests) = 2
    /\ manifests[1].valid /\ manifests[1].kind = KindPod
    /\ ~manifests[2].valid
    /\ args.resKind = KindJobLower
    /\ result = << >>
    /\ err = [kind |-> "malformedManifest"]

\* the kinds of the groups printed, one entry per resource or list printed, in order
RECURSIVE KindsVisited(_)
KindsVisited(lines) ==
    IF lines = << >> THEN << >>
    ELSE (IF Head(lines).line \in {"resource", "list"} THEN <<Head(lines).kind>> ELSE << >>)
            \o KindsVisited(Tail(lines))

RECURSIVE SumOfSizes(_, _)
SumOfSizes(groups, keys) ==
    IF keys = {} THEN 0
    ELSE LET k == CHOOSE x \in keys : TRUE
         IN  Len(groups[k]) + SumOfSizes(groups, keys \ {k})

(***************************************************************************)
(* C30: without a requested kind filterResources partitions its input:     *)
(* every resource is in exactly one group, the one of its lower-cased      *)
(* kind, the sizes of the groups add up to the number of manifests, no     *)
(* group is empty and a group keeps the order of the input; printResources *)
(* then goes through the groups in ascending order of the key.             *)
(***************************************************************************)
C30_GroupsPartitionInput ==
    /\ (Classified /\ args.resKind = NoKind) =>
          LET groups == result.resources IN
          /\ DOMAIN groups = {ToLower(manifests[p].kind) : p \in 1..Len(manifests)}
          /\ \A k \in DOMAIN groups :
                /\ groups[k] # << >>
                /\ groups[k] = ResourcesAt(PositionsOfKind(k), 1)
          /\ SumOfSizes(groups, DOMAIN groups) = Len(manifests)
    /\ pc = "printed" =>
          LET visited == KindsVisited(result.printed) IN
          /\ {visited[k] : k \in 1..Len(visited)} = DOMAIN result.resources
          /\ \A i, j \in 1..Len(visited) :
                i < j => (visited[i] = visited[j] \/ StringLess(visited[i], visited[j]))

\* Pod a, Job a, pod b: two groups, job before pod, the pods in the order given
C30_Witness ==
    /\ pc = "printed"
    /\ args.resKind = NoKind
    /\ args.output = "name"
    /\ manifests = <<[valid |-> TRUE, kind |-> KindPod, name |-> "a"],
                     [valid |-> TRUE, kind |-> KindJob, name |-> "a"],
                     [valid |-> TRUE, kind |-> KindPodLower, name |-> "b"]>>
    /\ result.printed = <<[line |-> "NAME"],
                          [line |-> "resource", kind |-> KindJobLower, name |-> "a"],
                          [line |-> "blank"],
                          [line |-> "NAME"],
                          [line |-> "resource", kind |-> KindPodLower, name |-> "a"],
                          [line |-> "resource", kind |-> KindPodLower, name |-> "b"]>>

(***************************************************************************)
(* C23: an Application whose normalised source list is empty fails at      *)
(* once with the no-source-configured error: nothing is validated, no git  *)
(* command is run, no credential is looked up, nothing is rendered, no     *)
(* manifests come out and neither generation path is entered.              *)
(***************************************************************************)
C23_NoSourceFailsFast ==
    (pc # "start" /\ GetSources(app) = << >>) =>
        /\ pc = "fatal"
        /\ err = NoSourceConfigured
        /\ route = "none"
        /\ log = << >>
        /\ requests = << >>
        /\ manifests = << >>
        /\ bindings = << >>

\* an Application with neither .spec.source nor .spec.sources, after the pass
C23_Witness ==
    /\ app = [source |-> << >>, sources |-> << >>]
    /\ pc = "fatal"
    /\ err = NoSourceConfigured
    /\ log = << >>

\* the positions in the log of the entries of one kind
LogPositions(name) == {k \in 1..Len(log) : log[k].ev = name}

(***************************************************************************)
(* C24: a multi-source pass builds the reference table exactly once,       *)
(* before the first GenerateManifest call, and never changes it            *)
(* afterwards: every request of the pass carries that same table and       *)
(* HasMultipleSources = true; the single-source path builds no table and   *)
(* sends a request without table and with the flag unset.                  *)
(***************************************************************************)
C24_TableBuiltOnceAndShared ==
    /\ [][TableBuilt => refSources' = refSources]_vars
    /\ [](route = "multi" =>
            /\ LogCount("buildRefSources") <= 1
            /\ ~TableBuilt => (refSources = EmptyMap /\ requests = << >>)
            /\ \A b \in LogPositions("buildRefSources"), r \in LogPositions("render") : b < r
            /\ pc = "done" => LogCount("buildRefSources") = 1
            /\ \A k \in 1..Len(requests) :
                 /\ requests[k].refSources = refSources
                 /\ requests[k].hasMultipleSources)
    /\ [](route = "single" =>
            /\ ~TableBuilt
            /\ refSources = EmptyMap
            /\ \A k \in 1..Len(requests) :
                 /\ requests[k].refSources = EmptyMap
                 /\ ~requests[k].hasMultipleSources)

\* three sources rendered, each request with the table holding "$configs"
C24_Witness ==
    /\ route = "multi"
    /\ pc = "done"
    /\ Len(requests) = 3
    /\ DOMAIN refSources = {"$configs"}
    /\ \A k \in 1..3 : requests[k].refSources = refSources /\ requests[k].hasMultipleSources

\* the positions of the sources whose ref is non-empty and carried by no later source
LastCarriers == {k \in 1..Len(sources) :
                    /\ sources[k].ref # ""
                    /\ \A j \in (k + 1)..Len(sources) : sources[j].ref # sources[k].ref}

(***************************************************************************)
(* C26: in a multi-source pass, for every source with a non-empty ref that *)
(* no later source shares, the targetRevision under "$" + ref in the       *)
(* reference table is the targetRevision of the source handed to the       *)
(* renderer for that index: the written one for a remote source and for a  *)
(* local one whose resolution failed, the resolved commit otherwise.       *)
(***************************************************************************)
C26_TableAgreesWithRequests ==
    (route = "multi" /\ TableBuilt) =>
        \A k \in LastCarriers :
            /\ ("$" \o sources[k].ref) \in DOMAIN refSources
            /\ refSources["$" \o sources[k].ref].targetRevision = resolvedSources[k].targetRevision
            /\ k <= Len(requests) =>
                 /\ requests[k].applicationSource = resolvedSources[k]
                 /\ requests[k].refSources["$" \o sources[k].ref].targetRevision
                        = requests[k].applicationSource.targetRevision
            /\ resolvedSources[k].targetRevision =
                 IF bindings[k].bound /\ bindings[k].resolved THEN bindings[k].sha
                 ELSE sources[k].targetRevision

\* a local source named "configs" whose HEAD could not be resolved: table and request say main
C26_Witness ==
    /\ route = "multi"
    /\ pc = "done"
    /\ Len(sources) = 2
    /\ sources[1].ref = "configs" /\ sources[2].ref = ""
    /\ bindings[1].bound /\ ~bindings[1].resolved
    /\ refSources["$configs"].targetRevision = Main
    /\ requests[1].applicationSource.targetRevision = Main

\* the positions of the Git (non-chart) sources already rendered
GitRequests == {k \in 1..Len(requests) : sources[k].chart = ""}

(***************************************************************************)
(* C27: in a multi-source pass that has passed the validation, the working *)
(* tree answering every call alike, the Git sources are all rendered from  *)
(* the local tree or all rendered from their remote: the decision never    *)
(* differs between two Git sources of the pass.                            *)
(***************************************************************************)
C27_LocalDecisionUniform ==
    (route = "multi" /\ TableBuilt) =>
        /\ \A k, j \in GitIndices(sources) :
             /\ localPaths[k + 1] = localPaths[j + 1]
             /\ bindings[k + 1].bound = bindings[j + 1].bound
        /\ \A k, j \in GitRequests :
             (requests[k].repo.type = "git") = (requests[j].repo.type = "git")
        /\ \A k \in GitRequests :
             requests[k].repo =
                 IF bindings[k].bound THEN LocalRepository(RootDir)
                 ELSE RemoteRepository(sources[k].repoURL)

\* two Git sources of the tree's repository around a chart: both from file:///w
C27_Witness ==
    /\ route = "multi"
    /\ pc = "done"
    /\ Len(sources) = 3
    /\ GitIndices(sources) = {0, 2}
    /\ requests[1].repo = LocalRepository(RootDir)
    /\ requests[2].repo = RemoteRepository(sources[2].repoURL)
    /\ requests[3].repo = LocalRepository(RootDir)

(***************************************************************************)
(* C28: a Helm chart source is never rendered from the local tree, on      *)
(* either path: also when its repoURL normalises to the working tree's     *)
(* remote it is rendered with its own repoURL and looked-up credentials,   *)
(* and with the targetRevision it was written with.  Violated on the       *)
(* single-source path, which does not look at Chart.                       *)
(***************************************************************************)
C28_ChartSourceNeverLocal ==
    \A k \in 1..Len(requests) :
        sources[k].chart # "" =>
            /\ requests[k].repo = RemoteRepository(sources[k].repoURL)
            /\ requests[k].applicationSource.targetRevision = sources[k].targetRevision
            /\ ~bindings[k].bound

\* the non-empty refs of the source list
RefNames == {sources[k].ref : k \in 1..Len(sources)} \ {""}

\* the positions of the sources carrying a ref
Carriers(ref) == {k \in 1..Len(sources) : sources[k].ref = ref}

(***************************************************************************)
(* C29: when several sources carry the same non-empty ref, buildRefSources *)
(* makes one entry for it, holding the values of the source with the       *)
(* highest index; the table has as many entries as there are distinct      *)
(* non-empty refs, and never more than there are sources.                  *)
(***************************************************************************)
C29_LastCarrierWins ==
    pc = "refsBuilt" =>
        /\ Cardinality(DOMAIN refSources) = Cardinality(RefNames)
        /\ Cardinality(DOMAIN refSources) <= Len(sources)
        /\ \A ref \in RefNames :
             LET last == sources[Max(Carriers(ref))]
             IN  /\ ("$" \o ref) \in DOMAIN refSources
                 /\ refSources["$" \o ref].targetRevision = last.targetRevision
                 /\ refSources["$" \o ref].repo = last.repoURL
                 /\ refSources["$" \o ref].chart = last.chart

\* "values" carried by a Git source at main and then by a chart source at abc123
C29_Witness ==
    /\ pc = "refsBuilt"
    /\ Len(sources) = 3
    /\ sources[1].ref = "values" /\ sources[1].targetRevision = Main /\ sources[1].chart = ""
    /\ sources[2].ref = "configs"
    /\ sources[3].ref = "values" /\ sources[3].targetRevision = HeadSha
    /\ sources[3].chart = "grafana"
    /\ DOMAIN refSources = {"$values", "$configs"}
    /\ refSources["$values"] = [targetRevision |-> HeadSha, repo |-> HttpsB, chart |-> "grafana"]

====
